---- MODULE Spec2Model ----
(***************************************************************************)
(* Model of the guarded hill-climb margin optimizer                        *)
(* (src/margin_optimizer.py) and of the metrics derivation it uses         *)
(* (src/metrics.py).                                                       *)
(*                                                                         *)
(* Numbers.  The program computes in IEEE doubles.  The model computes in  *)
(* integers, on inputs chosen so that every double the program computes    *)
(* from them is that same integer: margins, steps and bid rates are whole  *)
(* percents, money is whole dollars, impressions are 0, 1000 or 2000 with  *)
(* revenue, cost and profit divisible accordingly, and steps are powers of *)
(* two.  The two comparisons against a scaled baseline are stated          *)
(* cross-multiplied (x >= (1 - p/100) * b  iff  100 * x >= (100 - p) * b), *)
(* which agrees with the double comparison on all these inputs.            *)
(*                                                                         *)
(* Optional[float] fields are sequences: None is << >> and a value v is    *)
(* << v >>.  The values of a persisted dict carry their JSON type, so that *)
(* a conversion of a null or of a non-numeric string can fail as float()   *)
(* does.                                                                   *)
(***************************************************************************)
EXTENDS Integers, Sequences, FiniteSets, TLC

VARIABLES
    opt,      \* the MarginOptimizer's constructor parameters (self.baseline_margin, self.step, self.min_step)
    state,    \* self._state, an OptimizerState
    file,     \* the local state file at state_path: << >> when it does not exist, << dict >> otherwise
    calls,    \* number of suggest_next_margin calls made so far
    last,     \* the last suggest_next_margin call: branch taken, margin returned, window given,
              \* dicts written to the local file in order
    boot,     \* the last construction: exception raised (or "none"), where the state came from,
              \* whether the remote store was read
    s3,       \* the remote store: whether S3_BUCKET is set, and the object under the state key
              \* (<< >> when there is none, << document >> otherwise)
    arm2,     \* a second optimizer with a state_path of its own, sharing the remote store
    analysis  \* the CSV analysis (analyze_margin_test.py): the row it is given, and the
              \* RowMetrics compute_metrics made of it (<< >> before it has run)

vars == << opt, state, file, calls, last, boot, s3, arm2, analysis >>

----------------------------------------------------------------------------
(* Bounds and configuration *)

\* Longest sequence of suggest_next_margin calls explored.
MaxCalls == 3

\* Constructor defaults, which run_optimizer.main passes as they are.
guardrail_drop_pct == 10
min_profit_improvement_pct == 2
baseline_margin_default == 35
\* history[-100:]
HistoryCap == 100

\* Constructor arguments a caller of the class may choose for step and
\* min_step, in points.
StepValues == {1, 2, 4}
MinStepValues == {1, 2}

\* run_optimizer.main constructs its optimizer with min_step=0.25, so the
\* margins and steps of the optimizer main runs are counted in quarters of a
\* point
QuartersPerPoint == 4

Quarters(points) == QuartersPerPoint * points

\* MarginOptimizer(baseline_margin=35.0, step=1.0, min_step=0.25, ...) as main
\* calls it, in quarters of a point: 140, 4 and 1
main_arguments ==
    [baseline_margin |-> Quarters(baseline_margin_default),
     step            |-> Quarters(1),
     min_step        |-> 1]

None == << >>
Some(v) == << v >>
Val(x) == x[1]

\* Python's `x or 0` on an Optional[float]: None and 0.0 are both falsy.
OrZero(x) == IF x = None THEN 0 ELSE IF Val(x) = 0 THEN 0 ELSE Val(x)

----------------------------------------------------------------------------
(* Windows handed to suggest_next_margin *)

Window(m, i, r, c, b, rs) ==
    [margin |-> m, impressions |-> i, revenue |-> r, cost |-> c,
     bid_rate |-> b, responses |-> rs]

Windows ==
    { Window(36, 1000, 100, 50, 10, 500),   \* reference: srpm 100, profit 50
      Window(36, 1000, 101, 50, 10, 500),   \* profit 51: +2% on the reference
      Window(36, 1000,  90, 50, 10, 500),   \* srpm 90: exactly 90% of the reference
      Window(36, 2000, 160, 50, 10, 500),   \* srpm 80 with profit 110
      Window(36, 1000,  50, 50, 10, 500),   \* profit 0
      Window(36,    0,   0, 50,  0,   0),   \* no impressions, revenue, bids or responses
      Window(36, 1000, 101, 50,  9, 500),   \* bid rate exactly 90% of 10
      Window(36, 1000, 101, 50,  8, 500),   \* bid rate below 90% of 9 and of 10
      Window(34, 1000, 101, 50, 10, 500) }  \* a margin below the constructor's baseline

NoWindow == Window(0, 0, 0, 0, 0, 0)

----------------------------------------------------------------------------
(* metrics.py *)

\* (x / denom) * 1000.0
Per1k(x, denom) == (x * 1000) \div denom

\* Mutant: one floored denominator, the impressions', serves both divisions.
compute_derived_metrics_one_denominator(impressions, revenue, cost, responses) ==
    LET denom_impr == IF impressions > 0 THEN impressions ELSE 1
        denom_resp == denom_impr
        profit     == revenue - cost
    IN  [profit          |-> profit,
         profit_per_1k   |-> Per1k(profit, denom_impr),
         revenue_per_1k  |-> Per1k(revenue, denom_impr),
         cost_per_1k     |-> Per1k(cost, denom_impr),
         srpm            |-> Per1k(revenue, denom_impr),
         impression_rate |-> IF denom_resp # 0 THEN impressions \div denom_resp ELSE 0]

compute_derived_metrics(impressions, revenue, cost, responses) ==
    LET denom_impr == IF impressions > 0 THEN impressions ELSE 1
        denom_resp == IF responses > 0 THEN responses ELSE 1
        profit     == revenue - cost
    IN  [profit          |-> profit,
         profit_per_1k   |-> Per1k(profit, denom_impr),
         revenue_per_1k  |-> Per1k(revenue, denom_impr),
         cost_per_1k     |-> Per1k(cost, denom_impr),
         srpm            |-> Per1k(revenue, denom_impr),
         impression_rate |-> IF denom_resp # 0 THEN impressions \div denom_resp ELSE 0]

\* Mutant: the window's srpm is taken from the profit per 1k.
compute_window_metrics_srpm_of_profit(window) ==
    LET derived == compute_derived_metrics(window.impressions, window.revenue,
                                           window.cost, window.responses)
    IN  [profit          |-> derived.profit,
         profit_per_1k   |-> derived.profit_per_1k,
         revenue_per_1k  |-> derived.revenue_per_1k,
         cost_per_1k     |-> derived.cost_per_1k,
         srpm            |-> derived.profit_per_1k,
         impressions     |-> window.impressions,
         responses       |-> window.responses,
         bid_rate        |-> window.bid_rate,
         margin          |-> window.margin,
         impression_rate |-> derived.impression_rate]

compute_window_metrics(window) ==
    LET derived == compute_derived_metrics(window.impressions, window.revenue,
                                           window.cost, window.responses)
    IN  [profit          |-> derived.profit,
         profit_per_1k   |-> derived.profit_per_1k,
         revenue_per_1k  |-> derived.revenue_per_1k,
         cost_per_1k     |-> derived.cost_per_1k,
         srpm            |-> derived.srpm,
         impressions     |-> window.impressions,
         responses       |-> window.responses,
         bid_rate        |-> window.bid_rate,
         margin          |-> window.margin,
         impression_rate |-> derived.impression_rate]

----------------------------------------------------------------------------
(* analyze_margin_test.py and the rows of the CSV export *)

\* A CSV row after load_rows: the numeric columns the derivation reads, and
\* the arm's margin and bid rate
Row(impressions, responses, revenue, cost, margin, bid_rate) ==
    [impressions |-> impressions, responses |-> responses, revenue |-> revenue,
     cost |-> cost, margin |-> margin, bid_rate |-> bid_rate]

\* compute_metrics, for one row: the RowMetrics fields made from those columns
compute_metrics(r) ==
    LET derived == compute_derived_metrics(r.impressions, r.revenue, r.cost, r.responses)
    IN  [impressions         |-> r.impressions,
         responses           |-> r.responses,
         margin_pct          |-> r.margin,
         profit              |-> derived.profit,
         profit_per_1k_impr  |-> derived.profit_per_1k,
         revenue_per_1k_impr |-> derived.revenue_per_1k,
         cost_per_1k_impr    |-> derived.cost_per_1k,
         impression_rate     |-> derived.impression_rate,
         srpm                |-> derived.srpm]

\* run_optimizer.load_metrics_from_csv: the window made of the arm's row
load_metrics_from_csv(r) ==
    Window(r.margin, r.impressions, r.revenue, r.cost, r.bid_rate, r.responses)

\* No CSV analysis is under way
NoAnalysis == [row |-> Row(0, 0, 0, 0, 0, 0), metrics |-> << >>]

----------------------------------------------------------------------------
(* OptimizerState and its persisted form *)

OptimizerState(bm, lsm, cm, st) ==
    [baseline_margin   |-> bm,
     last_safe_margin  |-> lsm,
     current_margin    |-> cm,
     step              |-> st,
     baseline_srpm     |-> None,
     baseline_bid_rate |-> None,
     baseline_profit   |-> None,
     history           |-> << >>]

\* s[-n:]
LastN(s, n) == IF Len(s) <= n THEN s ELSE SubSeq(s, Len(s) - n + 1, Len(s))

\* Values of a parsed JSON document, tagged with their type
JNumber(v) == [t |-> "number", num |-> v]

JNull == [t |-> "null"]

JString(v) == [t |-> "string", str |-> v]

JArray(items) == [t |-> "array", items |-> items]

JObject(members) == [t |-> "object", members |-> members]

\* An Optional[float] as json.dump writes it
JOptional(x) == IF x = None THEN JNull ELSE JNumber(Val(x))

\* The text of a file or remote object: a JSON document, or text json.load rejects
JsonText(value) == [kind |-> "json", value |-> value]

Garbage == [kind |-> "garbage"]

\* json.dump(state_dict, f)
json_dump(d) == JsonText(JObject(d))

\* bool(x) of a parsed JSON value
Truthy(x) ==
    CASE x.t = "object" -> DOMAIN x.members # {}
      [] x.t = "array"  -> x.items # << >>
      [] x.t = "number" -> x.num # 0
      [] x.t = "string" -> x.str # ""
      [] OTHER          -> FALSE

\* The exception float(x) raises, or "none": None is a TypeError, a string
\* that is no number a ValueError
float_error(x) ==
    CASE x.t = "number" -> "none"
      [] x.t = "string" -> "ValueError"
      [] OTHER          -> "TypeError"

\* float(x) of a number
float(x) == x.num

\* Mutant: the step is not written.
to_dict_without_step(s) ==
    [baseline_margin   |-> JNumber(s.baseline_margin),
     last_safe_margin  |-> JNumber(s.last_safe_margin),
     current_margin    |-> JNumber(s.current_margin),
     baseline_srpm     |-> JOptional(s.baseline_srpm),
     baseline_bid_rate |-> JOptional(s.baseline_bid_rate),
     baseline_profit   |-> JOptional(s.baseline_profit),
     history           |-> JArray(s.history)]

\* asdict(self): every field, under its own name
to_dict(s) ==
    [baseline_margin   |-> JNumber(s.baseline_margin),
     last_safe_margin  |-> JNumber(s.last_safe_margin),
     current_margin    |-> JNumber(s.current_margin),
     step              |-> JNumber(s.step),
     baseline_srpm     |-> JOptional(s.baseline_srpm),
     baseline_bid_rate |-> JOptional(s.baseline_bid_rate),
     baseline_profit   |-> JOptional(s.baseline_profit),
     history           |-> JArray(s.history)]

\* d.get(key, default)
Get(d, key, default) == IF key \in DOMAIN d THEN d[key] ELSE default

\* Mutant: the field is tested for truth, so a stored 0.0 loads as None.
GetOptional_truthy(d, key) ==
    IF Truthy(Get(d, key, JNull)) THEN Some(float(d[key])) ELSE None

\* float(d[key]) if d.get(key) is not None else None
GetOptional(d, key) ==
    IF Get(d, key, JNull) # JNull THEN Some(float(d[key])) ELSE None

\* The exception that expression raises, or "none"
GetOptional_error(d, key) ==
    IF Get(d, key, JNull) # JNull THEN float_error(d[key]) ELSE "none"

\* The exception d.get("history", [])[-100:] raises, or "none"
history_error(d) ==
    IF Get(d, "history", JArray(<< >>)).t \in {"array", "string"} THEN "none" ELSE "TypeError"

\* The first exception in a sequence of outcomes, or "none"
FirstError(errors) ==
    IF \A i \in 1..Len(errors) : errors[i] = "none"
    THEN "none"
    ELSE errors[CHOOSE i \in 1..Len(errors) :
                    /\ errors[i] # "none"
                    /\ \A j \in 1..(i - 1) : errors[j] = "none"]

\* The exception from_dict(d) raises on a dict d, or "none"; the keyword
\* arguments are evaluated in order
from_dict_error(d) ==
    FirstError(<< float_error(Get(d, "baseline_margin", JNumber(35))),
                  float_error(Get(d, "last_safe_margin", JNumber(35))),
                  float_error(Get(d, "current_margin", JNumber(35))),
                  float_error(Get(d, "step", JNumber(1))),
                  GetOptional_error(d, "baseline_srpm"),
                  GetOptional_error(d, "baseline_bid_rate"),
                  GetOptional_error(d, "baseline_profit"),
                  history_error(d) >>)

\* Mutant: a missing required field loads as 0.
from_dict_missing_as_zero(d) ==
    [baseline_margin   |-> float(Get(d, "baseline_margin", JNumber(0))),
     last_safe_margin  |-> float(Get(d, "last_safe_margin", JNumber(0))),
     current_margin    |-> float(Get(d, "current_margin", JNumber(0))),
     step              |-> float(Get(d, "step", JNumber(0))),
     baseline_srpm     |-> GetOptional(d, "baseline_srpm"),
     baseline_bid_rate |-> GetOptional(d, "baseline_bid_rate"),
     baseline_profit   |-> GetOptional(d, "baseline_profit"),
     history           |-> LastN(Get(d, "history", JArray(<< >>)).items, HistoryCap)]

\* from_dict(d) when it raises nothing
from_dict(d) ==
    [baseline_margin   |-> float(Get(d, "baseline_margin", JNumber(35))),
     last_safe_margin  |-> float(Get(d, "last_safe_margin", JNumber(35))),
     current_margin    |-> float(Get(d, "current_margin", JNumber(35))),
     step              |-> float(Get(d, "step", JNumber(1))),
     baseline_srpm     |-> GetOptional(d, "baseline_srpm"),
     baseline_bid_rate |-> GetOptional(d, "baseline_bid_rate"),
     baseline_profit   |-> GetOptional(d, "baseline_profit"),
     history           |-> LastN(Get(d, "history", JArray(<< >>)).items, HistoryCap)]

----------------------------------------------------------------------------
(* MarginOptimizer *)

\* MarginOptimizer.update: the history entry of a window, appended and trimmed
HistoryEntry(window, wm) ==
    [margin         |-> window.margin,
     impressions    |-> window.impressions,
     revenue        |-> window.revenue,
     cost           |-> window.cost,
     bid_rate       |-> window.bid_rate,
     profit         |-> wm.profit,
     profit_per_1k  |-> wm.profit_per_1k,
     revenue_per_1k |-> wm.revenue_per_1k,
     cost_per_1k    |-> wm.cost_per_1k,
     srpm           |-> wm.srpm]

\* Mutant: the history is not trimmed after the append.
update_untrimmed(s, window) ==
    LET wm == compute_window_metrics(window)
    IN  [s EXCEPT !.history = Append(s.history, HistoryEntry(window, wm))]

update(s, window) ==
    LET wm == compute_window_metrics(window)
    IN  [s EXCEPT !.history = LastN(Append(s.history, HistoryEntry(window, wm)), HistoryCap)]

\* Mutant: the guardrail comparison is strict.
AtLeastThreshold_strict(x, baseline) ==
    100 * x > (100 - guardrail_drop_pct) * OrZero(baseline)

\* x >= threshold * (baseline or 0), threshold = 1.0 - guardrail_drop_pct / 100.0
AtLeastThreshold(x, baseline) ==
    100 * x >= (100 - guardrail_drop_pct) * OrZero(baseline)

srpm_ok(wm, s) == AtLeastThreshold(wm.srpm, s.baseline_srpm)

bid_rate_ok(wm, s) == AtLeastThreshold(wm.bid_rate, s.baseline_bid_rate)

\* Mutant: one passing guardrail is taken to be enough.
GuardrailsPass_either(wm, s) == srpm_ok(wm, s) \/ bid_rate_ok(wm, s)

GuardrailsPass(wm, s) == srpm_ok(wm, s) /\ bid_rate_ok(wm, s)

\* Mutant: a non-positive baseline profit never counts as improved on.
improvement_never_from_zero(wm, s) ==
    LET base_profit == OrZero(s.baseline_profit)
    IN  IF base_profit > 0
        THEN << (wm.profit - base_profit) * 100, base_profit >>
        ELSE << 0, 1 >>

\* Mutant: against a non-positive baseline profit any profit counts as improved.
improvement_always_from_zero(wm, s) ==
    LET base_profit == OrZero(s.baseline_profit)
    IN  IF base_profit > 0
        THEN << (wm.profit - base_profit) * 100, base_profit >>
        ELSE << 100, 1 >>

\* The profit improvement in percent, as the fraction << numerator, denominator >>
\* with a positive denominator.
improvement(wm, s) ==
    LET base_profit == OrZero(s.baseline_profit)
    IN  IF base_profit > 0
        THEN << (wm.profit - base_profit) * 100, base_profit >>
        ELSE << IF wm.profit > 0 THEN 100 ELSE 0, 1 >>

\* improvement >= self.min_profit_improvement_pct
ImprovedEnough(wm, s) ==
    LET imp == improvement(wm, s)
    IN  imp[1] >= min_profit_improvement_pct * imp[2]

\* Mutant: the step is doubled instead of halved.
ShrunkStep_doubled(step, min_step) ==
    IF min_step > 2 * step THEN min_step ELSE 2 * step

\* Mutant: the step is halved (rounding down) with no floor.
ShrunkStep_no_floor(step, min_step) == step \div 2

\* Mutant: the step is halved only while the half stays above the floor.
ShrunkStep_stops_above_floor(step, min_step) ==
    IF step > 2 * min_step THEN step \div 2 ELSE step

\* max(self._state.step / 2, self.min_step); step / 2 is whole whenever it is
\* the larger of the two, the steps being powers of two.
ShrunkStep(step, min_step) ==
    IF 2 * min_step > step THEN min_step ELSE step \div 2

\* Mutant: cold start leaves last_safe_margin at its constructed value.
ColdStart_keeps_safe_margin(s, wm, margin) ==
    [s EXCEPT !.baseline_srpm     = Some(wm.srpm),
              !.baseline_bid_rate = Some(wm.bid_rate),
              !.baseline_profit   = Some(wm.profit),
              !.current_margin    = margin + s.step]

ColdStart(s, wm, margin) ==
    [s EXCEPT !.baseline_srpm     = Some(wm.srpm),
              !.baseline_bid_rate = Some(wm.bid_rate),
              !.baseline_profit   = Some(wm.profit),
              !.last_safe_margin  = margin,
              !.current_margin    = margin + s.step]

\* Mutant: rollback shrinks the step but keeps the proposed margin.
Rollback_keeps_margin(s, min_step) ==
    [s EXCEPT !.step = ShrunkStep(s.step, min_step)]

\* Mutant: rollback takes the margin it abandons as the safe one.
Rollback_adopts_proposal(s, min_step) ==
    [s EXCEPT !.last_safe_margin = s.current_margin,
              !.current_margin   = s.last_safe_margin,
              !.step             = ShrunkStep(s.step, min_step)]


\* Mutant: rollback proposes a margin one step below the safe one.
Rollback_below_safe(s, min_step) ==
    [s EXCEPT !.current_margin = s.last_safe_margin - ShrunkStep(s.step, min_step),
              !.step           = ShrunkStep(s.step, min_step)]


Rollback(s, min_step) ==
    [s EXCEPT !.current_margin = s.last_safe_margin,
              !.step           = ShrunkStep(s.step, min_step)]

\* Mutant: accept climbs from the stored proposal instead of the window's margin.
Accept_from_current(s, wm, margin) ==
    [s EXCEPT !.last_safe_margin  = margin,
              !.baseline_srpm     = Some(wm.srpm),
              !.baseline_bid_rate = Some(wm.bid_rate),
              !.baseline_profit   = Some(wm.profit),
              !.current_margin    = s.current_margin + s.step]

\* Mutant: accept steps down from the window's margin.
Accept_steps_down(s, wm, margin) ==
    [s EXCEPT !.last_safe_margin  = margin,
              !.baseline_srpm     = Some(wm.srpm),
              !.baseline_bid_rate = Some(wm.bid_rate),
              !.baseline_profit   = Some(wm.profit),
              !.current_margin    = margin - s.step]

Accept(s, wm, margin) ==
    [s EXCEPT !.last_safe_margin  = margin,
              !.baseline_srpm     = Some(wm.srpm),
              !.baseline_bid_rate = Some(wm.bid_rate),
              !.baseline_profit   = Some(wm.profit),
              !.current_margin    = margin + s.step]

\* Mutant: hold reverts the margin but keeps the step.
Hold_keeps_step(s, min_step) ==
    [s EXCEPT !.current_margin = s.last_safe_margin]

\* Mutant: hold shrinks the step but keeps the proposed margin.
Hold_keeps_margin(s, min_step) ==
    [s EXCEPT !.step = ShrunkStep(s.step, min_step)]


Hold(s, min_step) ==
    [s EXCEPT !.current_margin = s.last_safe_margin,
              !.step           = ShrunkStep(s.step, min_step)]

\* Mutant: the first window is recognised by the history holding one entry.
BranchOf_first_by_history(s, wm) ==
    IF s.baseline_srpm = None \/ Len(s.history) <= 1 THEN "cold_start"
    ELSE IF ~GuardrailsPass(wm, s) THEN "rollback"
    ELSE IF ImprovedEnough(wm, s) THEN "accept"
    ELSE "hold"

\* The branch suggest_next_margin takes from state s on a window
BranchOf(s, wm) ==
    IF s.baseline_srpm = None THEN "cold_start"
    ELSE IF ~GuardrailsPass(wm, s) THEN "rollback"
    ELSE IF ImprovedEnough(wm, s) THEN "accept"
    ELSE "hold"

\* suggest_next_margin from the return of its update(...) call to its own
\* return: self._state after the branch taken on the ingested state s1
suggest_next_margin_decision(s1, window, min_step) ==
    LET wm == compute_window_metrics(window)
        b  == BranchOf(s1, wm)
    IN  CASE b = "cold_start" -> ColdStart(s1, wm, window.margin)
          [] b = "rollback"   -> Rollback(s1, min_step)
          [] b = "accept"     -> Accept(s1, wm, window.margin)
          [] OTHER            -> Hold(s1, min_step)

\* self._state when suggest_next_margin returns
suggest_next_margin(s, window, min_step) ==
    suggest_next_margin_decision(update(s, window), window, min_step)

\* self._state as __init__ builds it before _load_state
FreshState(o) == OptimizerState(o.baseline_margin, o.baseline_margin, o.baseline_margin, o.step)

\* s3_storage.load_state(): None when S3_BUCKET is unset, and when the get or
\* json.loads raises (answers says whether the store answers); else the parsed object
s3_load_state(store, answers) ==
    IF ~store.enabled THEN None
    ELSE IF ~answers \/ store.object = << >> THEN None
    ELSE IF store.object[1].kind # "json" THEN None
    ELSE Some(store.object[1].value)

\* s3_storage.save_state(state): the remote object afterwards; nothing is
\* written when S3_BUCKET is unset or the put raises
s3_save_state(store, d, answers) ==
    IF store.enabled /\ answers THEN [store EXCEPT !.object = << json_dump(d) >>] ELSE store

\* from_dict(value) inside _load_state, for a parsed JSON value: a value that
\* is no dict has no get (AttributeError)
Loaded(value, source, fresh, read) ==
    IF value.t # "object"
    THEN [state |-> fresh, error |-> "AttributeError", source |-> source, remote_read |-> read]
    ELSE IF from_dict_error(value.members) # "none"
    THEN [state |-> fresh, error |-> from_dict_error(value.members),
          source |-> source, remote_read |-> read]
    ELSE [state |-> from_dict(value.members), error |-> "none",
          source |-> source, remote_read |-> read]

\* Mutant: the remote state is tried first, the local file only after it.
MarginOptimizer_load_state_remote_first(f, store, answers, fresh) ==
    LET s3_state == s3_load_state(store, answers)
    IN  IF s3_state # None /\ Truthy(Val(s3_state))
        THEN Loaded(Val(s3_state), "remote", fresh, store.enabled)
        ELSE IF f # << >> /\ f[1].kind = "json"
        THEN Loaded(f[1].value, "local", fresh, store.enabled)
        ELSE [state |-> fresh, error |-> "none", source |-> "fresh",
              remote_read |-> store.enabled]

\* MarginOptimizer._load_state: the local file when it exists (a
\* JSONDecodeError leaves the fresh state, any other exception propagates),
\* else the remote state when load_state() returns a true value
MarginOptimizer_load_state(f, store, answers, fresh) ==
    IF f # << >>
    THEN IF f[1].kind # "json"
         THEN [state |-> fresh, error |-> "none", source |-> "fresh", remote_read |-> FALSE]
         ELSE Loaded(f[1].value, "local", fresh, FALSE)
    ELSE LET s3_state == s3_load_state(store, answers)
         IN  IF s3_state # None /\ Truthy(Val(s3_state))
             THEN Loaded(Val(s3_state), "remote", fresh, store.enabled)
             ELSE [state |-> fresh, error |-> "none", source |-> "fresh",
                   remote_read |-> store.enabled]

\* s3_pull_and_run.py, STEP 0: delete_object on the key of the remote state,
\* with the script's own client; an exception (S3_BUCKET unset, the store not
\* answering) is passed over and the object stays
s3_delete_state(store, answers) ==
    IF store.enabled /\ answers THEN [store EXCEPT !.object = << >>] ELSE store

\* What a construction leaves in boot
BootOf(r) == [error |-> r.error, source |-> r.source, remote_read |-> r.remote_read]

----------------------------------------------------------------------------
(* The state machine *)

\* last before any call: no completed call, none in progress
NoCall == [branch |-> "none", returned |-> 0, window |-> NoWindow, writes |-> << >>,
           ingested |-> None]

NoArm == [constructed |-> FALSE]

\* An optimizer a caller constructs with a step and a min_step of its
\* choice: no state file yet, S3_BUCKET unset.
Init ==
    /\ opt \in [baseline_margin : {baseline_margin_default},
                step            : StepValues,
                min_step        : MinStepValues]
    /\ file = << >>
    /\ s3 = [enabled |-> FALSE, object |-> << >>]
    /\ state = MarginOptimizer_load_state(file, s3, TRUE, FreshState(opt)).state
    /\ boot = BootOf(MarginOptimizer_load_state(file, s3, TRUE, FreshState(opt)))
    /\ calls = 0
    /\ last = NoCall
    /\ arm2 = NoArm
    /\ analysis = NoAnalysis

\* The remote store after one save_state call, which may fail
RemoteAfterSave(store, d) == { s3_save_state(store, d, answers) : answers \in BOOLEAN }

\* Mutant: update appends to the history in memory but does not save.
Update_unsaved(window) ==
    /\ boot.error = "none"
    /\ state' = update(state, window)
    /\ UNCHANGED << opt, file, s3, calls, boot, arm2, analysis >>

\* One call of MarginOptimizer.update(window), on its own or as the first
\* statement of suggest_next_margin: the entry is appended, the history trimmed,
\* and _save_state writes the file and puts the remote object.  Until a
\* decision follows, file and remote object hold this ingest-only state.
Update(window) ==
    /\ boot.error = "none"
    /\ state' = update(state, window)
    /\ file' = << json_dump(to_dict(state')) >>
    /\ s3' \in RemoteAfterSave(s3, to_dict(state'))
    /\ UNCHANGED << opt, calls, boot, arm2, analysis >>

\* suggest_next_margin is between the return of its update call and its
\* decision; last.ingested holds the window
Ingested == last.ingested # None

\* suggest_next_margin(window) up to the return of its update call; last keeps
\* the window and the dict update saved
Entered(window) ==
    last' = [last EXCEPT !.ingested = Some([window |-> window, write |-> to_dict(state')])]

\* The branch suggest_next_margin takes once its update call has returned
Branch == BranchOf(state, compute_window_metrics(Val(last.ingested).window))

\* What a returned call leaves in last: the branch, the returned margin, the
\* window and the two dicts it wrote
Returned == [branch   |-> Branch,
             returned |-> state'.current_margin,
             window   |-> Val(last.ingested).window,
             writes   |-> << Val(last.ingested).write, to_dict(state') >>,
             ingested |-> None]

\* The rest of suggest_next_margin(window) after its update call: the branch
\* on the ingested state, the branch's _save_state, the return.
Decide ==
    /\ boot.error = "none"
    /\ Ingested
    /\ state' = suggest_next_margin_decision(state, Val(last.ingested).window, opt.min_step)
    /\ file' = << json_dump(to_dict(state')) >>
    /\ s3' \in RemoteAfterSave(s3, to_dict(state'))
    /\ calls' = calls + 1
    /\ last' = Returned
    /\ UNCHANGED << opt, boot, arm2, analysis >>

\* suggest_next_margin(window) is called and runs up to the return of its
\* update call
Ingest ==
    \E window \in Windows :
        /\ calls < MaxCalls
        /\ ~Ingested
        /\ Update(window)
        /\ Entered(window)

DecideColdStart == Ingested /\ Branch = "cold_start" /\ Decide

DecideRollback == Ingested /\ Branch = "rollback" /\ Decide

DecideAccept == Ingested /\ Branch = "accept" /\ Decide

DecideHold == Ingested /\ Branch = "hold" /\ Decide

\* s3_pull_and_run.py is run, at any time: its STEP 0 removes the remote
\* state.  The script's later steps read and write a CSV and keys of their
\* own, none of which the optimizer reads.
CleanStaleState ==
    \E answers \in BOOLEAN :
        /\ s3.object # << >>
        /\ s3' = s3_delete_state(s3, answers)
        /\ UNCHANGED << opt, state, file, calls, last, boot, arm2, analysis >>

\* A new run: the optimizer is constructed again with the same parameters and
\* loads its state.
Reload ==
    \E answers \in BOOLEAN :
        LET r == MarginOptimizer_load_state(file, s3, answers, FreshState(opt))
        IN  /\ state' = r.state
            /\ boot' = BootOf(r)
            /\ UNCHANGED << opt, file, calls, last, s3, arm2, analysis >>

Next ==
    \/ Ingest
    \/ DecideColdStart
    \/ DecideRollback
    \/ DecideAccept
    \/ DecideHold
    \/ Reload


Spec == Init /\ [][Next]_vars

----------------------------------------------------------------------------
(* Construction over a persisted blob: the optimizer is about to be built   *)
(* over some local file and some remote object                              *)

\* Constructor arguments explored for baseline_margin besides the default.
BaselineMarginValues == {baseline_margin_default, 40}

\* d without the key
Without(d, key) == [k \in DOMAIN d \ {key} |-> d[k]]

\* d with d[key] = v
With(d, key, v) == [k \in DOMAIN d |-> IF k = key THEN v ELSE d[k]]

RequiredKeys == {"baseline_margin", "last_safe_margin", "current_margin", "step"}

OptionalKeys == {"baseline_srpm", "baseline_bid_rate", "baseline_profit"}

\* What an optimizer built with baseline_margin 30 and step 8 saved after its
\* first window: no field has a value a constructor here or from_dict defaults to
SavedDict ==
    to_dict(suggest_next_margin(OptimizerState(30, 30, 30, 8),
                                Window(36, 1000, 100, 50, 10, 500), 1))

\* What another optimizer (baseline_margin 32, step 16) saved after two windows
OtherSavedDict ==
    to_dict(suggest_next_margin(
                suggest_next_margin(OptimizerState(32, 32, 32, 16),
                                    Window(36, 1000, 100, 50, 10, 500), 1),
                Window(36, 1000, 101, 50, 10, 500), 1))

\* JSON objects a state file may hold: a saved state, one with a key missing,
\* one with a null or a string where a number belongs, the empty object
BlobObjects ==
    {SavedDict, << >>}
       \cup { Without(SavedDict, key) : key \in RequiredKeys \cup OptionalKeys \cup {"history"} }
       \cup { With(SavedDict, key, JNull) : key \in RequiredKeys \cup {"history"} }
       \cup { With(SavedDict, key, JString("abc")) : key \in {"step", "baseline_srpm"} }

\* JSON documents that are no object
NonObjects == {JArray(<< >>), JArray(<< JNumber(1) >>), JNumber(5), JNull}

\* The local state file: absent, or some text
LocalFiles ==
    {<< >>, << Garbage >>}
       \cup { << json_dump(d) >> : d \in BlobObjects }
       \cup { << JsonText(v) >> : v \in NonObjects }

\* The object under the remote state key: absent, or some text
RemoteObjects ==
    {<< >>, << Garbage >>}
       \cup { << json_dump(d) >> :
                d \in {OtherSavedDict, << >>, Without(OtherSavedDict, "step"),
                       With(OtherSavedDict, "step", JNull)} }
       \cup { << JsonText(v) >> : v \in {JArray(<< >>), JArray(<< JNumber(1) >>)} }

Unconstructed == [error |-> "none", source |-> "unconstructed", remote_read |-> FALSE]

InitLoad ==
    /\ opt \in [baseline_margin : BaselineMarginValues,
                step            : StepValues,
                min_step        : MinStepValues]
    /\ file \in LocalFiles
    /\ s3 \in [enabled : BOOLEAN, object : RemoteObjects]
    /\ state = FreshState(opt)
    /\ boot = Unconstructed
    /\ calls = 0
    /\ last = NoCall
    /\ arm2 = NoArm
    /\ analysis = NoAnalysis

\* MarginOptimizer.__init__: the fresh state, then _load_state; when that
\* raises, boot.error names the exception and no optimizer exists
Construct ==
    \E answers \in BOOLEAN :
        LET r == MarginOptimizer_load_state(file, s3, answers, FreshState(opt))
        IN  /\ boot = Unconstructed
            /\ state' = r.state
            /\ boot' = BootOf(r)
            /\ UNCHANGED << opt, file, calls, last, s3, arm2, analysis >>

\* The first suggest_next_margin call of the optimizer built, up to the
\* return of its update call
FirstIngest ==
    \E window \in {Window(36, 1000, 100, 50, 10, 500), Window(36, 1000, 90, 50, 10, 500)} :
        /\ boot # Unconstructed
        /\ calls = 0
        /\ ~Ingested
        /\ Update(window)
        /\ Entered(window)

\* The first call decides and returns
FirstCall ==
    /\ boot # Unconstructed
    /\ Decide

NextLoad ==
    \/ Construct
    \/ FirstIngest
    \/ FirstCall

SpecLoad == InitLoad /\ [][NextLoad]_vars

----------------------------------------------------------------------------
(* Two arms: two optimizers with a state_path each, run by processes with   *)
(* the same S3_BUCKET and S3_PREFIX.  The first arm is held in opt, state,  *)
(* file, calls, last and boot; the second in arm2, together with the run it *)
(* would have made had the first arm never run (arm2.alone, over a remote   *)
(* store only the second arm writes to).                                    *)

\* Longest sequence of suggest_next_margin calls of each arm.
MaxArmCalls == 2

ArmWindows ==
    { Window(36, 1000, 100, 50, 10, 500),
      Window(36, 1000, 101, 50, 10, 500),
      Window(36, 1000,  90, 50, 10, 500) }

\* One optimizer and its surroundings: the exception its constructor raised,
\* self._state, its local file, the remote store, the margins it returned
Arm(error, s, f, store, returned) ==
    [error |-> error, state |-> s, file |-> f, s3 |-> store, returned |-> returned]

\* MarginOptimizer.__init__ of an arm
ConstructArm(a, answers, fresh) ==
    LET r == MarginOptimizer_load_state(a.file, a.s3, answers, fresh)
    IN  Arm(r.error, r.state, a.file, a.s3, a.returned)

\* update(window) of an arm, as suggest_next_margin calls it; answers says
\* whether its save_state call reaches the remote store
UpdateArm(a, window, answers) ==
    LET after == update(a.state, window)
    IN  Arm(a.error, after, << json_dump(to_dict(after)) >>,
            s3_save_state(a.s3, to_dict(after), answers), a.returned)

\* The rest of suggest_next_margin(window) of an arm after its update call
DecideArm(a, window, min_step, answers) ==
    LET after == suggest_next_margin_decision(a.state, window, min_step)
    IN  Arm(a.error, after, << json_dump(to_dict(after)) >>,
            s3_save_state(a.s3, to_dict(after), answers),
            Append(a.returned, after.current_margin))

\* The second arm as it is, over the shared remote store
Arm2Here == Arm(arm2.error, arm2.state, arm2.file, s3, arm2.returned)

\* arm2 after a step that took the second arm to `here` and its lone run to
\* `alone`; ingested holds the window of a call that has not decided yet
Arm2After(here, alone, constructed, n, ingested) ==
    [constructed |-> constructed, calls |-> n, ingested |-> ingested,
     error |-> here.error, state |-> here.state, file |-> here.file,
     returned |-> here.returned, alone |-> alone]

InitArms ==
    /\ opt \in [baseline_margin : {baseline_margin_default},
                step            : StepValues,
                min_step        : MinStepValues]
    /\ file = << >>
    /\ s3 \in [enabled : BOOLEAN, object : {<< >>}]
    /\ state = FreshState(opt)
    /\ boot = Unconstructed
    /\ calls = 0
    /\ last = NoCall
    /\ arm2 = Arm2After(Arm("none", FreshState(opt), << >>, s3, << >>),
                        Arm("none", FreshState(opt), << >>, s3, << >>), FALSE, 0, None)
    /\ analysis = NoAnalysis

\* The first arm's optimizer is called: suggest_next_margin up to the return
\* of its update call
Ingest1 ==
    \E window \in ArmWindows :
        /\ boot # Unconstructed
        /\ calls < MaxArmCalls
        /\ ~Ingested
        /\ Update(window)
        /\ Entered(window)

\* The first arm's call decides and returns
Decide1 ==
    /\ boot # Unconstructed
    /\ Decide

\* The second arm's process constructs its optimizer, with the same arguments
Construct2 ==
    \E answers \in BOOLEAN :
        /\ ~arm2.constructed
        /\ arm2' = Arm2After(ConstructArm(Arm2Here, answers, FreshState(opt)),
                             ConstructArm(arm2.alone, answers, FreshState(opt)), TRUE, 0, None)
        /\ UNCHANGED << opt, state, file, calls, last, boot, s3, analysis >>

\* The second arm's optimizer is called: suggest_next_margin up to the return
\* of its update call
Ingest2 ==
    \E window \in ArmWindows, answers \in BOOLEAN :
        /\ arm2.constructed
        /\ arm2.error = "none"
        /\ arm2.calls < MaxArmCalls
        /\ arm2.ingested = None
        /\ arm2' = Arm2After(UpdateArm(Arm2Here, window, answers),
                             UpdateArm(arm2.alone, window, answers),
                             TRUE, arm2.calls, Some(window))
        /\ s3' = UpdateArm(Arm2Here, window, answers).s3
        /\ UNCHANGED << opt, state, file, calls, last, boot, analysis >>

\* The second arm's call decides and returns
Decide2 ==
    \E answers \in BOOLEAN :
        /\ arm2.constructed
        /\ arm2.error = "none"
        /\ arm2.ingested # None
        /\ arm2' = Arm2After(DecideArm(Arm2Here, Val(arm2.ingested), opt.min_step, answers),
                             DecideArm(arm2.alone, Val(arm2.ingested), opt.min_step, answers),
                             TRUE, arm2.calls + 1, None)
        /\ s3' = DecideArm(Arm2Here, Val(arm2.ingested), opt.min_step, answers).s3
        /\ UNCHANGED << opt, state, file, calls, last, boot, analysis >>

\* s3_pull_and_run.py is run, at any time: its STEP 0 removes the remote
\* state both arms save to.  Run without the first arm, it removes the remote
\* state of the second arm's lone run alike.  The script's later steps read
\* and write a CSV and keys of their own.
CleanStaleStateArms ==
    \E answers \in BOOLEAN :
        /\ s3.object # << >>
        /\ s3' = s3_delete_state(s3, answers)
        /\ arm2' = [arm2 EXCEPT !.alone.s3 = s3_delete_state(@, answers)]
        /\ UNCHANGED << opt, state, file, calls, last, boot, analysis >>

\* Construct: the first arm's process constructs its optimizer
NextArms ==
    \/ Construct
    \/ Ingest1
    \/ Decide1
    \/ Construct2
    \/ Ingest2
    \/ Decide2
    \/ CleanStaleStateArms

SpecArms == InitArms /\ [][NextArms]_vars

----------------------------------------------------------------------------
(* A long-running optimizer: the history near its cap *)

\* Calls already made, in earlier runs, when the exploration starts.
PrefillCalls == 98

\* Calls explored beyond the history cap.
MaxOverCalls == 2

\* The i-th window of the earlier runs; its bid rate tells its place
PrefillWindow(i) == Window(36, 1000, 100, 50, i, 500)

\* The history after the first n (at most HistoryCap) windows of the earlier runs
PrefillHistory(n) ==
    [i \in 1..n |-> HistoryEntry(PrefillWindow(i), compute_window_metrics(PrefillWindow(i)))]

\* Calls after which the earlier runs change nothing but the history: a cold
\* start, then holds until the step is at its floor
SettleCalls == 4

RECURSIVE AfterPrefill(_, _)
AfterPrefill(n, o) ==
    IF n = 0 THEN FreshState(o)
    ELSE suggest_next_margin(AfterPrefill(n - 1, o), PrefillWindow(n), o.min_step)

\* The state after the first n windows of the earlier runs, SettleCalls <= n:
\* every window after the first is a hold
Prefilled(n, o) ==
    [AfterPrefill(SettleCalls, o) EXCEPT !.history = PrefillHistory(n)]

\* A state file whose history carries n windows, more than the optimizer
\* itself writes (the file is an input of the constructor)
OverlongDict(n, o) ==
    With(to_dict(Prefilled(PrefillCalls, o)), "history",
         JArray([i \in 1..n |->
                    HistoryEntry(PrefillWindow(i), compute_window_metrics(PrefillWindow(i)))]))

LongWindows ==
    { Window(36, 1000, 100, 50, 10, 500),
      Window(36, 1000, 101, 50, 10, 500),
      Window(36, 1000,  90, 50,  0, 500) }

\* An optimizer is about to be constructed over the file the earlier runs
\* left, or over a file with one entry more than the cap; calls counts the
\* windows recorded.
InitLong ==
    /\ opt \in [baseline_margin : {baseline_margin_default},
                step            : StepValues,
                min_step        : MinStepValues]
    /\ \/ /\ file = << json_dump(to_dict(Prefilled(PrefillCalls, opt))) >>
          /\ calls = PrefillCalls
       \/ /\ file = << json_dump(OverlongDict(HistoryCap + 1, opt)) >>
          /\ calls = HistoryCap + 1
    /\ s3 = [enabled |-> FALSE, object |-> << >>]
    /\ state = FreshState(opt)
    /\ boot = Unconstructed
    /\ last = NoCall
    /\ arm2 = NoArm
    /\ analysis = NoAnalysis

\* The construction of this run
ConstructLong ==
    /\ Construct

\* One more suggest_next_margin call, up to the return of its update call
IngestLong ==
    \E window \in LongWindows :
        /\ boot # Unconstructed
        /\ calls < HistoryCap + MaxOverCalls
        /\ ~Ingested
        /\ Update(window)
        /\ Entered(window)

\* The call decides and returns
DecideLong ==
    /\ boot # Unconstructed
    /\ Decide

\* A new run over the file as it is
ReloadLong ==
    /\ last # NoCall
    /\ Reload

NextLong ==
    \/ ConstructLong
    \/ IngestLong
    \/ DecideLong
    \/ ReloadLong

SpecLong == InitLong /\ [][NextLong]_vars

----------------------------------------------------------------------------
(* One row of a CSV export, given both to the CSV analysis                  *)
(* (analyze_margin_test.py) and to the runner (run_optimizer.py --csv)      *)

\* Column values explored: none, and whole amounts the derivation divides
\* without rounding
ImpressionValues == {0, 1000, 2000}
ResponseValues == {0, 500, 1000}
RevenueValues == {0, 50, 100, 160, 200}
CostValues == {0, 50, 100}

\* The arm's margin column is counted in quarters of a point, as the state of
\* the optimizer main constructs is
Rows ==
    { Row(i, rs, r, c, Quarters(36), 10) :
        i \in ImpressionValues, rs \in ResponseValues, r \in RevenueValues, c \in CostValues }

\* The optimizer main constructs, before its first call, and a row not yet
\* analysed
InitMetrics ==
    /\ opt = main_arguments
    /\ file = << >>
    /\ s3 = [enabled |-> FALSE, object |-> << >>]
    /\ state = MarginOptimizer_load_state(file, s3, TRUE, FreshState(opt)).state
    /\ boot = BootOf(MarginOptimizer_load_state(file, s3, TRUE, FreshState(opt)))
    /\ calls = 0
    /\ last = NoCall
    /\ arm2 = NoArm
    /\ analysis \in { [row |-> r, metrics |-> << >>] : r \in Rows }

\* analyze_margin_test: compute_metrics on the row
Analyze ==
    /\ analysis.metrics = << >>
    /\ analysis' = [analysis EXCEPT !.metrics = << compute_metrics(analysis.row) >>]
    /\ UNCHANGED << opt, state, file, calls, last, boot, s3, arm2 >>

\* run_optimizer --csv: the row's window is given to suggest_next_margin,
\* which runs up to the return of its update call
IngestRow ==
    /\ calls = 0
    /\ ~Ingested
    /\ Update(load_metrics_from_csv(analysis.row))
    /\ Entered(load_metrics_from_csv(analysis.row))

\* suggest_next_margin decides on the row's window and returns
DecideRow ==
    /\ calls = 0
    /\ Decide

NextMetrics ==
    \/ Analyze
    \/ IngestRow
    \/ DecideRow

SpecMetrics == InitMetrics /\ [][NextMetrics]_vars

----------------------------------------------------------------------------
(* Closed loop: a platform that applies the margin each call returns and    *)
(* measures the next window at it.  The repository's sink and metrics       *)
(* source are placeholders that carry no margin from one window to the      *)
(* next, so the loop is the deployment the documentation describes, with    *)
(* the optimizer's calls taken from the code.                               *)

\* Longest sequence of closed-loop calls explored.
MaxLoopCalls == 4

\* Margins the first window may have been measured at: the default the
\* metrics source reports, one below and one above
FirstMargins == {34, 35, 36}

\* What a window measures besides its margin: impressions, revenue, cost,
\* bid rate, responses
Measurements ==
    { << 1000, 100, 50, 10, 500 >>,
      << 1000, 101, 50, 10, 500 >>,
      << 1000,  90, 50, 10, 500 >>,
      << 2000, 160, 50, 10, 500 >>,
      << 1000, 101, 50,  8, 500 >> }

\* The margin the platform runs at, as documented for the sink ("receives the
\* proposed current_margin"): the one last returned, once one was
MarginInForce(first) == IF calls = 0 THEN first ELSE last.returned

\* suggest_next_margin is called with the window measured at the margin in
\* force, and runs up to the return of its update call
LoopIngest ==
    \E first \in FirstMargins, m \in Measurements :
        /\ calls < MaxLoopCalls
        /\ ~Ingested
        /\ Update(Window(MarginInForce(first), m[1], m[2], m[3], m[4], m[5]))
        /\ Entered(Window(MarginInForce(first), m[1], m[2], m[3], m[4], m[5]))

\* Decide: the call decides and returns the margin that is applied next
NextLoop ==
    \/ LoopIngest
    \/ Decide
    \/ Reload

SpecLoop == Init /\ [][NextLoop]_vars

----------------------------------------------------------------------------
(* MarginOptimizer.update as a public method: a caller ingests a window     *)
(* without asking for a decision                                            *)

\* Most update calls made on their own, and most suggest_next_margin calls
\* among them.
MaxLoneUpdates == 2

MaxUpdateCalls == 2

UpdateWindows ==
    { Window(36, 1000, 100, 50, 10, 500),
      Window(36, 1000, 101, 50, 10, 500),
      Window(36, 2000, 160, 50, 10, 500) }

\* update calls made on their own so far: history entries that belong to no
\* suggest_next_margin call
LoneUpdates == Len(state.history) - calls - (IF Ingested THEN 1 ELSE 0)

\* update(window) called on its own: the entry is appended and saved, no
\* decision is taken and nothing is returned to apply
UpdateOnly ==
    \E window \in UpdateWindows :
        /\ LoneUpdates < MaxLoneUpdates
        /\ ~Ingested
        /\ Update(window)
        /\ UNCHANGED last

UpdateIngest ==
    \E window \in UpdateWindows :
        /\ calls < MaxUpdateCalls
        /\ ~Ingested
        /\ Update(window)
        /\ Entered(window)

NextUpdate ==
    \/ UpdateOnly
    \/ UpdateIngest
    \/ Decide
    \/ Reload

SpecUpdate == Init /\ [][NextUpdate]_vars

----------------------------------------------------------------------------
(* Properties.  They are stated on the windows' raw fields and the state's  *)
(* fields before and after a call, not through the optimizer's operators.   *)

\* A step in which suggest_next_margin decides and returns
IsDecide == calls' = calls + 1

\* A step in which suggest_next_margin's update call ingests the window
IsIngest == last.ingested = None /\ last'.ingested # None

NonHistory(s) ==
    << s.baseline_margin, s.last_safe_margin, s.current_margin, s.step,
       s.baseline_srpm, s.baseline_bid_rate, s.baseline_profit >>

\* The step appends one entry to the history and changes nothing else of the state
OnlyAppends ==
    /\ NonHistory(state') = NonHistory(state)
    /\ Len(state'.history) = Len(state.history) + 1
    /\ SubSeq(state'.history, 1, Len(state.history)) = state.history

SrpmOf(w) == (w.revenue * 1000) \div (IF w.impressions > 0 THEN w.impressions ELSE 1)

ProfitOf(w) == w.revenue - w.cost

HasBaseline(s) == s.baseline_srpm # None

\* sRPM >= (1 - guardrail_drop_pct/100) * baseline_srpm
SrpmHolds(s, w) ==
    100 * SrpmOf(w) >= (100 - guardrail_drop_pct) * Val(s.baseline_srpm)

\* bid_rate >= (1 - guardrail_drop_pct/100) * baseline_bid_rate
BidRateHolds(s, w) ==
    100 * w.bid_rate >= (100 - guardrail_drop_pct) * Val(s.baseline_bid_rate)

\* (profit - baseline_profit) / baseline_profit * 100 >= min_profit_improvement_pct
\* when baseline_profit > 0; else 100 (profit positive) or 0 against the same minimum
ProfitImproves(s, w) ==
    IF Val(s.baseline_profit) > 0
    THEN (ProfitOf(w) - Val(s.baseline_profit)) * 100
             >= min_profit_improvement_pct * Val(s.baseline_profit)
    ELSE (IF ProfitOf(w) > 0 THEN 100 ELSE 0) >= min_profit_improvement_pct

\* new = max(old / 2, floor)
IsHalvedWithFloor(new, old, floor) ==
    \/ 2 * new = old /\ new >= floor
    \/ new = floor /\ 2 * floor >= old

BaselineUnchanged ==
    /\ state'.baseline_srpm = state.baseline_srpm
    /\ state'.baseline_bid_rate = state.baseline_bid_rate
    /\ state'.baseline_profit = state.baseline_profit
    /\ state'.last_safe_margin = state.last_safe_margin

BaselineIsWindow(s, w) ==
    /\ s.baseline_srpm = Some(SrpmOf(w))
    /\ s.baseline_bid_rate = Some(w.bid_rate)
    /\ s.baseline_profit = Some(ProfitOf(w))
    /\ s.last_safe_margin = w.margin

\* C1: after cold start, a call accepts (re-anchors the baseline) only on a
\* window whose sRPM and bid rate both reach the threshold share of the
\* baseline; when either falls short the call rolls back, whatever the profit.
C1_GuardrailsGateAccept ==
    [][ (IsDecide /\ HasBaseline(state)) =>
          LET w  == last'.window
              ok == SrpmHolds(state, w) /\ BidRateHolds(state, w)
          IN  /\ last'.branch = "accept" => ok
              /\ ~BaselineUnchanged => ok
              /\ ~ok => last'.branch = "rollback" ]_vars

\* A rollback on a window that beats the baseline profit and whose sRPM holds:
\* the bid rate alone failed.
C1_Witness ==
    /\ last.branch = "rollback"
    /\ SrpmHolds(state, last.window)
    /\ ~BidRateHolds(state, last.window)
    /\ ProfitOf(last.window) > Val(state.baseline_profit)

\* C2: on a guardrail failure the call sets current_margin to last_safe_margin,
\* sets step to max(step/2, min_step), returns that current_margin, leaves the
\* three baseline fields and last_safe_margin unchanged; the window has only
\* added one history entry, when the call ingested it.
C2_RollbackEffect ==
    [][ /\ IsIngest => OnlyAppends
        /\ (IsDecide /\ HasBaseline(state)
               /\ ~(SrpmHolds(state, last'.window) /\ BidRateHolds(state, last'.window))) =>
             /\ last'.branch = "rollback"
             /\ state'.current_margin = state.last_safe_margin
             /\ IsHalvedWithFloor(state'.step, state.step, opt.min_step)
             /\ last'.returned = state'.current_margin
             /\ BaselineUnchanged
             /\ state'.baseline_margin = state.baseline_margin
             /\ state'.history = state.history ]_vars

\* A rollback that moved the proposal back and halved the step.
C2_Witness ==
    /\ last.branch = "rollback"
    /\ last.returned = state.last_safe_margin
    /\ last.returned # last.window.margin
    /\ 2 * state.step = opt.step

\* C3: when guardrails pass and the profit improvement reaches the minimum, the
\* call sets the baseline fields to the window's sRPM, bid rate and profit, sets
\* last_safe_margin to the window's margin, returns window margin + step and
\* leaves step unchanged.
C3_AcceptEffect ==
    [][ (IsDecide /\ HasBaseline(state)
            /\ SrpmHolds(state, last'.window) /\ BidRateHolds(state, last'.window)
            /\ ProfitImproves(state, last'.window)) =>
          /\ BaselineIsWindow(state', last'.window)
          /\ state'.current_margin = last'.window.margin + state.step
          /\ last'.returned = state'.current_margin
          /\ state'.step = state.step ]_vars

\* An accept of a window whose margin differs from the stored proposal, at the
\* exact 2% improvement and the exact 90% bid rate.
C3_Witness ==
    /\ last.branch = "accept"
    /\ calls = 2
    /\ state.history[1].profit = 50
    /\ state.history[1].bid_rate = 10
    /\ ProfitOf(last.window) = 51
    /\ last.window.bid_rate = 9
    /\ last.returned = last.window.margin + state.step

\* C4: when guardrails pass but the profit improvement is below the minimum,
\* the call returns last_safe_margin, sets step to max(step/2, min_step) and
\* leaves the baseline fields and last_safe_margin unchanged.
C4_HoldEffect ==
    [][ (IsDecide /\ HasBaseline(state)
            /\ SrpmHolds(state, last'.window) /\ BidRateHolds(state, last'.window)
            /\ ~ProfitImproves(state, last'.window)) =>
          /\ last'.returned = state.last_safe_margin
          /\ state'.current_margin = state.last_safe_margin
          /\ IsHalvedWithFloor(state'.step, state.step, opt.min_step)
          /\ BaselineUnchanged ]_vars

\* A hold that halved a step above the floor.
C4_Witness ==
    /\ last.branch = "hold"
    /\ last.returned = state.last_safe_margin
    /\ 2 * state.step = opt.step
    /\ state.step >= opt.min_step

\* C5: the first call of a state with no baseline makes the window's sRPM, bid
\* rate and profit the baseline and its margin last_safe_margin, returns window
\* margin + step and leaves step unchanged, whatever the window's metrics.
C5_ColdStartEffect ==
    [][ (IsDecide /\ ~HasBaseline(state)) =>
          /\ BaselineIsWindow(state', last'.window)
          /\ state'.current_margin = last'.window.margin + state.step
          /\ last'.returned = state'.current_margin
          /\ state'.step = state.step
          /\ last'.branch = "cold_start" ]_vars

\* A cold start on a window with no revenue, no bids and a loss.
C5_Witness ==
    /\ last.branch = "cold_start"
    /\ last.window.revenue = 0
    /\ last.window.bid_rate = 0
    /\ state.baseline_profit = Some(0 - 50)
    /\ state.last_safe_margin # opt.baseline_margin

\* C6: once a call has recorded a baseline, the baseline stays recorded through
\* every later call and reload, and no later call takes the cold-start branch.
C6_ColdStartOnce ==
    [][ calls >= 1 =>
          /\ HasBaseline(state)
          /\ HasBaseline(state')
          /\ IsDecide => last'.branch # "cold_start" ]_vars

\* A later call made on a baseline of zero sRPM and zero bid rate.
C6_Witness ==
    /\ calls >= 2
    /\ state.history[1].srpm = 0
    /\ state.history[1].bid_rate = 0
    /\ state.baseline_srpm = Some(0)
    /\ last.branch = "hold"

\* C7 as stated: for any constructed step and min_step, no step of the state
\* machine increases the state's step.
C7_StepNeverIncreases == [][ state'.step <= state.step ]_vars

\* C7 amended: a call that starts with step >= min_step does not increase step
\* and leaves it >= min_step.
C7_StepNeverIncreasesAboveFloor ==
    [][ state.step >= opt.min_step =>
          state'.step <= state.step /\ state'.step >= opt.min_step ]_vars

\* Two shrinking calls from a step above the floor.
C7_Witness ==
    /\ last.branch \in {"rollback", "hold"}
    /\ opt.step = 4
    /\ opt.min_step = 1
    /\ state.step = 1

\* C8: a rollback or hold never leaves step below min_step, and one that
\* starts with step = min_step leaves step unchanged.
C8_StepFloor ==
    [][ (IsDecide /\ last'.branch \in {"rollback", "hold"}) =>
          /\ state'.step >= opt.min_step
          /\ state.step = opt.min_step => state'.step = state.step ]_vars

\* A rollback or hold made with the step already at the floor.
C8_Witness ==
    /\ last.branch \in {"rollback", "hold"}
    /\ opt.step = opt.min_step
    /\ state.step = opt.min_step
    /\ calls = 3

\* The lowest margin among the constructor's baseline_margin and the windows
\* ingested so far
LowestMarginSeen ==
    LET seen == {opt.baseline_margin} \cup
                { state.history[i].margin : i \in 1..Len(state.history) }
    IN  CHOOSE m \in seen : \A n \in seen : m <= n

\* C9 as stated: every returned margin, and the stored current_margin and
\* last_safe_margin, is >= the baseline_margin the optimizer was constructed with.
C9_NeverBelowBaselineMargin ==
    /\ last.branch # "none" => last.returned >= opt.baseline_margin
    /\ state.current_margin >= opt.baseline_margin
    /\ state.last_safe_margin >= opt.baseline_margin

\* C9 amended: every returned margin, and the stored current_margin and
\* last_safe_margin, is >= the lowest of baseline_margin and the margins of the
\* windows ingested so far.
C9_NeverBelowLowestSeen ==
    /\ last.branch # "none" => last.returned >= LowestMarginSeen
    /\ state.current_margin >= LowestMarginSeen
    /\ state.last_safe_margin >= LowestMarginSeen

\* A margin below baseline_margin was ingested and accepted, and a later
\* call returned it.
C9_Witness ==
    /\ last.branch \in {"rollback", "hold"}
    /\ last.returned = LowestMarginSeen
    /\ last.returned < opt.baseline_margin

\* C10: with guardrails passed, the call accepts exactly when the improvement
\* ((profit - baseline_profit) / baseline_profit * 100 for a positive baseline
\* profit, else 100 for a positive profit and 0 otherwise) is at least
\* min_profit_improvement_pct, and holds otherwise.
C10_ProfitCheck ==
    [][ (IsDecide /\ HasBaseline(state)
            /\ SrpmHolds(state, last'.window) /\ BidRateHolds(state, last'.window)) =>
          /\ last'.branch \in {"accept", "hold"}
          /\ last'.branch = "accept" <=> ProfitImproves(state, last'.window) ]_vars

\* An accept from a baseline profit that was not positive.
C10_Witness ==
    /\ calls = 2
    /\ state.history[1].profit <= 0
    /\ last.branch = "accept"
    /\ ProfitOf(last.window) > 0

\* The fields of a state other than history
\* Histories other than the state's own: none, and its own twice over
OtherHistories(s) == { << >>, s.history \o s.history }

\* C17: a state that differs from the current one in history only takes, on
\* every window, the same branch, returns the same margin and ends with the
\* same non-history fields.
C17_HistoryNotConsulted ==
    \A w \in Windows : \A h \in OtherHistories(state) :
        LET other == [state EXCEPT !.history = h]
            wm    == compute_window_metrics(w)
            a     == suggest_next_margin(state, w, opt.min_step)
            b     == suggest_next_margin(other, w, opt.min_step)
        IN  /\ BranchOf(update(other, w), wm) = BranchOf(update(state, w), wm)
            /\ NonHistory(b) = NonHistory(a)

\* A state with a baseline and a history of two windows, from which some
\* window is accepted and some window is rolled back.
C17_Witness ==
    /\ HasBaseline(state)
    /\ Len(state.history) = 2
    /\ \E w \in Windows : BranchOf(update(state, w), compute_window_metrics(w)) = "accept"
    /\ \E w \in Windows : BranchOf(update(state, w), compute_window_metrics(w)) = "rollback"

\* C18 as stated: a call given the same window as the call before it takes
\* the same branch as that call.
C18_SameClassTwice ==
    [][ (IsDecide /\ last.branch # "none" /\ last'.window = last.window) =>
          last'.branch = last.branch ]_vars

\* C18 amended: a call given the same window as the call before it rolls back
\* after a rollback, holds after a hold, and holds after a cold start or an
\* accept.
C18_SameWindowTwice ==
    [][ (IsDecide /\ last.branch # "none" /\ last'.window = last.window) =>
          /\ last.branch = "rollback" => last'.branch = "rollback"
          /\ last.branch \in {"hold", "cold_start", "accept"} => last'.branch = "hold" ]_vars

\* The same window given three times: cold start, then hold, then hold.
C18_Witness ==
    /\ calls = 3
    /\ state.history[1] = state.history[2]
    /\ state.history[2] = state.history[3]
    /\ state.history[3].margin = last.window.margin
    /\ last.branch = "hold"

\* The fields of a persisted dict d are those of the state s
BlobEquals(d, s) ==
    /\ d.baseline_margin = [t |-> "number", num |-> s.baseline_margin]
    /\ d.last_safe_margin = [t |-> "number", num |-> s.last_safe_margin]
    /\ d.current_margin = [t |-> "number", num |-> s.current_margin]
    /\ d.step = [t |-> "number", num |-> s.step]
    /\ d.baseline_srpm = (IF s.baseline_srpm = << >> THEN [t |-> "null"]
                          ELSE [t |-> "number", num |-> s.baseline_srpm[1]])
    /\ d.baseline_bid_rate = (IF s.baseline_bid_rate = << >> THEN [t |-> "null"]
                              ELSE [t |-> "number", num |-> s.baseline_bid_rate[1]])
    /\ d.baseline_profit = (IF s.baseline_profit = << >> THEN [t |-> "null"]
                            ELSE [t |-> "number", num |-> s.baseline_profit[1]])
    /\ d.history = [t |-> "array", items |-> s.history]

\* C15: every suggest_next_margin call writes the state twice: first, before
\* any branch runs, the state it started from with only the window appended to
\* the history (baseline fields, margins and step as before the call), then
\* the state at return; the local file at return is a JSON object equal, field
\* by field, to the state in memory, on each of the four branches.
C15_EveryCallPersists ==
    [][ /\ IsIngest =>
             /\ OnlyAppends
             /\ BlobEquals(Val(last'.ingested).write, state')
             /\ file' = << [kind |-> "json", value |->
                               [t |-> "object", members |-> Val(last'.ingested).write]] >>
        /\ IsDecide =>
             /\ Len(last'.writes) = 2
             /\ last'.writes[1] = Val(last.ingested).write
             /\ BlobEquals(last'.writes[1], state)
             /\ state'.history = state.history
             /\ BlobEquals(last'.writes[2], state')
             /\ file' = << [kind |-> "json", value |->
                               [t |-> "object", members |-> last'.writes[2]]] >>
             /\ last'.branch \in {"cold_start", "rollback", "accept", "hold"} ]_vars

\* A call has accepted: the first write carried the old baseline and margins,
\* the file holds the new ones.
C15_Witness ==
    /\ last.branch = "accept"
    /\ Len(last.writes) = 2
    /\ last.writes[1].baseline_profit # last.writes[2].baseline_profit
    /\ last.writes[1].current_margin # last.writes[2].current_margin
    /\ file # << >>
    /\ BlobEquals(file[1].value.members, state)


----------------------------------------------------------------------------
(* Construction over persisted blobs (SpecLoad) *)

\* The optimizer has just been constructed (or its constructor has raised)
JustConstructed == boot # Unconstructed /\ calls = 0 /\ ~Ingested

\* The state __init__ seeds from its baseline_margin and step
SeededState ==
    [baseline_margin   |-> opt.baseline_margin,
     last_safe_margin  |-> opt.baseline_margin,
     current_margin    |-> opt.baseline_margin,
     step              |-> opt.step,
     baseline_srpm     |-> << >>,
     baseline_bid_rate |-> << >>,
     baseline_profit   |-> << >>,
     history           |-> << >>]

\* A member of a JSON object that is present and no number
NotANumber(d, key) == key \in DOMAIN d /\ d[key].t # "number"

\* A blob is malformed: unparseable, no object, or an object with a null or a
\* non-number in a required field, a non-number other than null in an optional
\* field, or a history that is no array
Malformed(text) ==
    \/ text.kind # "json"
    \/ text.value.t # "object"
    \/ /\ text.value.t = "object"
       /\ \/ \E key \in {"baseline_margin", "last_safe_margin", "current_margin", "step"} :
                NotANumber(text.value.members, key)
          \/ \E key \in {"baseline_srpm", "baseline_bid_rate", "baseline_profit"} :
                /\ NotANumber(text.value.members, key)
                /\ text.value.members[key].t # "null"
          \/ /\ "history" \in DOMAIN text.value.members
             /\ text.value.members["history"].t # "array"

\* The blob the constructor is given: the local file when there is one, else
\* the remote object when the remote store is enabled
GivenBlob ==
    IF file # << >> THEN file
    ELSE IF s3.enabled THEN s3.object
    ELSE << >>

\* C11: constructing the optimizer over a malformed blob, local or remote,
\* raises nothing and leaves the fresh state seeded from the constructor's
\* baseline_margin and step.
C11_MalformedFallsBack ==
    (JustConstructed /\ GivenBlob # << >> /\ Malformed(GivenBlob[1]))
        => (boot.error = "none" /\ state = SeededState)

\* The constructor has raised on a local file that parses as JSON but holds a
\* null where a number belongs.
C11_Witness ==
    /\ JustConstructed
    /\ file # << >>
    /\ Malformed(file[1])
    /\ file[1].kind = "json"
    /\ boot.error = "TypeError"

\* C12: a local file, whenever it exists, decides the constructed state and
\* the remote store is not read: a well-formed local blob is the state loaded,
\* and nothing of the remote object shows in it.  The remote store is read
\* when there is no local file and the store is enabled, and when neither the
\* file nor the store yields a state, the state is the constructor-seeded one.
C12_LocalPrecedence ==
    JustConstructed =>
        /\ file # << >> => (~boot.remote_read /\ boot.source # "remote")
        /\ (file # << >> /\ file[1].kind = "json" /\ file[1].value.t = "object"
              /\ DOMAIN file[1].value.members = DOMAIN to_dict(SeededState)
              /\ boot.error = "none")
             => BlobEquals(file[1].value.members, state)
        /\ file = << >> => (boot.remote_read <=> s3.enabled)
        /\ (file = << >> /\ (~s3.enabled \/ s3.object = << >>))
             => (boot.error = "none" /\ state = SeededState)
        /\ (boot.source = "remote" /\ boot.error = "none"
              /\ DOMAIN s3.object[1].value.members = DOMAIN to_dict(SeededState))
             => (file = << >> /\ BlobEquals(s3.object[1].value.members, state))

\* A saved local blob was loaded although the enabled remote store holds
\* another saved state.
C12_Witness ==
    /\ JustConstructed
    /\ file # << >>
    /\ file[1].kind = "json"
    /\ s3.enabled
    /\ s3.object # << >>
    /\ s3.object[1].kind = "json"
    /\ s3.object[1].value.t = "object"
    /\ "baseline_margin" \in DOMAIN s3.object[1].value.members
    /\ state.baseline_margin = 30
    /\ state.step = 8
    /\ s3.object[1].value.members.baseline_margin.num = 32

\* The blob the state was loaded from, when it was loaded from one
LoadedFrom ==
    IF boot.source = "local" THEN file[1].value.members
    ELSE s3.object[1].value.members

\* C13 as stated: a required field the blob lacks is loaded as the value the
\* optimizer was constructed with; an optional baseline field the blob lacks
\* is loaded as None.
C13_MissingFromConstructor ==
    (JustConstructed /\ boot.source \in {"local", "remote"} /\ boot.error = "none") =>
        /\ "baseline_margin" \notin DOMAIN LoadedFrom => state.baseline_margin = opt.baseline_margin
        /\ "last_safe_margin" \notin DOMAIN LoadedFrom => state.last_safe_margin = opt.baseline_margin
        /\ "current_margin" \notin DOMAIN LoadedFrom => state.current_margin = opt.baseline_margin
        /\ "step" \notin DOMAIN LoadedFrom => state.step = opt.step
        /\ "baseline_srpm" \notin DOMAIN LoadedFrom => state.baseline_srpm = << >>
        /\ "baseline_bid_rate" \notin DOMAIN LoadedFrom => state.baseline_bid_rate = << >>
        /\ "baseline_profit" \notin DOMAIN LoadedFrom => state.baseline_profit = << >>

\* C13: a required field the blob lacks is loaded as 35 (the three margins) or
\* 1 (step), whatever baseline_margin and step the optimizer was constructed
\* with; an optional baseline field the blob lacks is loaded as None; a
\* missing history is loaded empty.
C13_MissingFromDefaults ==
    (JustConstructed /\ boot.source \in {"local", "remote"} /\ boot.error = "none") =>
        /\ "baseline_margin" \notin DOMAIN LoadedFrom => state.baseline_margin = 35
        /\ "last_safe_margin" \notin DOMAIN LoadedFrom => state.last_safe_margin = 35
        /\ "current_margin" \notin DOMAIN LoadedFrom => state.current_margin = 35
        /\ "step" \notin DOMAIN LoadedFrom => state.step = 1
        /\ "baseline_srpm" \notin DOMAIN LoadedFrom => state.baseline_srpm = << >>
        /\ "baseline_bid_rate" \notin DOMAIN LoadedFrom => state.baseline_bid_rate = << >>
        /\ "baseline_profit" \notin DOMAIN LoadedFrom => state.baseline_profit = << >>
        /\ "history" \notin DOMAIN LoadedFrom => state.history = << >>

\* An optimizer constructed with baseline_margin 40 and step 4 has loaded a
\* blob that lacks step: the other fields are the blob's.
C13_Witness ==
    /\ JustConstructed
    /\ boot.source = "local"
    /\ boot.error = "none"
    /\ opt.baseline_margin = 40
    /\ opt.step = 4
    /\ "step" \notin DOMAIN file[1].value.members
    /\ state.step = 1
    /\ state.baseline_margin = 30
    /\ state.baseline_srpm = << 100 >>

----------------------------------------------------------------------------
(* Two arms (SpecArms) *)

\* C14: whatever the first arm has done, the second arm's loaded state, its
\* local file and the margins it has returned are those of the run it would
\* have made alone.
C14_ArmsIndependent ==
    arm2.constructed =>
        /\ arm2.error = arm2.alone.error
        /\ arm2.state = arm2.alone.state
        /\ arm2.file = arm2.alone.file
        /\ arm2.returned = arm2.alone.returned

\* The remote store is enabled, the first arm has decided, and the second
\* arm, constructed with no local file, starts from a state with a baseline.
C14_Witness ==
    /\ s3.enabled
    /\ calls > 0
    /\ arm2.constructed
    /\ arm2.calls = 0
    /\ arm2.file = << >>
    /\ arm2.state.baseline_srpm # << >>
    /\ arm2.alone.state.baseline_srpm = << >>

----------------------------------------------------------------------------
(* The history near its cap (SpecLong) *)

\* The window recorded in a history entry
IsEntryOf(entry, w) ==
    /\ entry.margin = w.margin
    /\ entry.impressions = w.impressions
    /\ entry.revenue = w.revenue
    /\ entry.cost = w.cost
    /\ entry.bid_rate = w.bid_rate

\* Windows recorded so far: those of the calls that returned and the one a
\* call in progress has ingested
Recorded == calls + (IF Ingested THEN 1 ELSE 0)

\* Place, among all windows recorded so far, of the i-th history entry when
\* the history holds the most recent ones
ArrivalIndex(i) == Recorded - Len(state.history) + i

\* C16: with n windows recorded, the history in memory holds min(n, 100)
\* entries, the i-th being the window that arrived i-th among the most recent
\* min(n, 100); each call appends its window at the end when it ingests it,
\* keeps the order, and drops nothing but the oldest entry, and only at the
\* cap; its decision leaves the history alone; no dict a call writes, and no
\* state loaded, has more than 100 entries.
C16_HistoryMostRecent ==
    /\ [](boot # Unconstructed =>
          /\ Len(state.history) = (IF Recorded < 100 THEN Recorded ELSE 100)
          /\ \A i \in 1..Len(state.history) :
                \/ state.history[i].bid_rate = ArrivalIndex(i)
                \/ /\ ArrivalIndex(i) > PrefillCalls
                   /\ state.history[i].bid_rate \in {0, 10}
          /\ \A k \in 1..Len(last.writes) : Len(last.writes[k].history.items) <= 100
          /\ Ingested => Len(Val(last.ingested).write.history.items) <= 100
          /\ last # NoCall => Len(file[1].value.members.history.items) <= 100)
    /\ [][ /\ IsIngest =>
               LET old == state.history
                   new == state'.history
                   dropped == Len(old) + 1 - Len(new)
               IN  /\ IsEntryOf(new[Len(new)], Val(last'.ingested).window)
                   /\ dropped = (IF Len(old) = 100 THEN 1 ELSE 0)
                   /\ \A i \in 1..(Len(new) - 1) : new[i] = old[i + dropped]
            /\ IsDecide =>
               /\ state'.history = state.history
               /\ IsEntryOf(state'.history[Len(state'.history)], last'.window) ]_vars

\* 101 windows have been recorded: the history is full, its first entry is
\* the second window and its last the window of the call just made.
C16_Witness ==
    /\ boot # Unconstructed
    /\ calls = 101
    /\ last # NoCall
    /\ Len(state.history) = 100
    /\ state.history[1].bid_rate = 2
    /\ state.history[99].bid_rate = 10
    /\ IsEntryOf(state.history[100], last.window)

----------------------------------------------------------------------------
(* Derived metrics (SpecMetrics) *)

\* The row has been analysed
Analysed == analysis.metrics # << >>

\* The row's window has been given to the optimizer: its history entry
Decided == calls = 1 /\ Len(state.history) = 1

\* C19: the two denominators are floored at 1 each on its own: a row without
\* impressions has profit, revenue and cost per 1k of 1000 times the amount,
\* whatever its responses, and a row without responses has an impression rate
\* equal to its impressions, whatever they are; an all-zero row derives zeros.
C19_DenominatorsFloored ==
    Analysed =>
        LET r == analysis.row
            m == analysis.metrics[1]
        IN  /\ r.impressions = 0 =>
                 /\ m.profit_per_1k_impr = (r.revenue - r.cost) * 1000
                 /\ m.revenue_per_1k_impr = r.revenue * 1000
                 /\ m.cost_per_1k_impr = r.cost * 1000
            /\ r.responses = 0 => m.impression_rate = r.impressions
            /\ (r.impressions = 0 /\ r.responses = 0 /\ r.revenue = 0 /\ r.cost = 0) =>
                 /\ m.profit = 0
                 /\ m.profit_per_1k_impr = 0
                 /\ m.srpm = 0
                 /\ m.impression_rate = 0

\* A row with impressions but no responses has been analysed: its impression
\* rate is floored on its own, its per-1k amounts are divided by the impressions.
C19_Witness ==
    /\ Analysed
    /\ analysis.row.responses = 0
    /\ analysis.row.impressions = 2000
    /\ analysis.row.revenue = 160
    /\ analysis.metrics[1].impression_rate = 2000
    /\ analysis.metrics[1].revenue_per_1k_impr = 80

\* C20: the profit derived is revenue - cost and the srpm derived is the
\* revenue per 1k, in the row metrics of the CSV analysis and in the window
\* metrics the optimizer records and takes its baseline from; where both have
\* run on the same row, they carry the same values.
C20_OneDerivation ==
    LET r == analysis.row
    IN  /\ Analysed =>
             /\ analysis.metrics[1].profit = r.revenue - r.cost
             /\ analysis.metrics[1].srpm = analysis.metrics[1].revenue_per_1k_impr
        /\ Decided =>
             /\ state.history[1].profit = r.revenue - r.cost
             /\ state.history[1].srpm = state.history[1].revenue_per_1k
             /\ state.baseline_profit = << r.revenue - r.cost >>
             /\ state.baseline_srpm = << state.history[1].revenue_per_1k >>
        /\ (Analysed /\ Decided) =>
             /\ state.history[1].profit = analysis.metrics[1].profit
             /\ state.history[1].profit_per_1k = analysis.metrics[1].profit_per_1k_impr
             /\ state.history[1].revenue_per_1k = analysis.metrics[1].revenue_per_1k_impr
             /\ state.history[1].cost_per_1k = analysis.metrics[1].cost_per_1k_impr
             /\ state.history[1].srpm = analysis.metrics[1].srpm

\* A row with a loss (cost above revenue) has been analysed and given to the
\* optimizer.
C20_Witness ==
    /\ Analysed
    /\ Decided
    /\ analysis.row.revenue = 50
    /\ analysis.row.cost = 100
    /\ analysis.row.impressions = 2000
    /\ state.history[1].profit = -50
    /\ analysis.metrics[1].srpm = 25

----------------------------------------------------------------------------
(* The baseline and the proposal over a run (Spec) *)

\* The baseline fields and last_safe_margin are those of the history entry e
BaselineIsEntry(s, e) ==
    /\ s.baseline_srpm = << e.srpm >>
    /\ s.baseline_bid_rate = << e.bid_rate >>
    /\ s.baseline_profit = << e.profit >>
    /\ s.last_safe_margin = e.margin

\* C22: once a baseline is recorded, baseline_srpm, baseline_bid_rate and
\* baseline_profit are the metrics, and last_safe_margin the margin, of one
\* recorded window; a cold start or accept makes it the window of that call,
\* and a rollback or hold changes none of the four.
C22_BaselineIsAdoptedWindow ==
    /\ [](state.baseline_srpm # << >> =>
            \E i \in 1..Len(state.history) : BaselineIsEntry(state, state.history[i]))
    /\ [][ IsDecide =>
             /\ last'.branch \in {"cold_start", "accept"} =>
                  BaselineIsEntry(state', state'.history[Len(state'.history)])
             /\ last'.branch \in {"rollback", "hold"} =>
                  /\ state'.baseline_srpm = state.baseline_srpm
                  /\ state'.baseline_bid_rate = state.baseline_bid_rate
                  /\ state'.baseline_profit = state.baseline_profit
                  /\ state'.last_safe_margin = state.last_safe_margin ]_vars

\* After a cold start and an accept, a rollback: the baseline is still the
\* accepted (second) window, not the first and not the last.
C22_Witness ==
    /\ calls = 3
    /\ last.branch = "rollback"
    /\ state.history[1].profit = 50
    /\ state.history[2].profit = 51
    /\ state.history[2].margin = 34
    /\ state.history[3].bid_rate = 8
    /\ state.baseline_profit = << 51 >>
    /\ state.baseline_bid_rate = << 10 >>
    /\ state.last_safe_margin = 34

\* C25: a call that changes a recorded baseline_profit raises it, every accept
\* changes it, and so baseline_profit never decreases once recorded.
C25_BaselineProfitRises ==
    [][ (IsDecide /\ state.baseline_profit # << >>) =>
          /\ state'.baseline_profit # << >>
          /\ state'.baseline_profit[1] >= state.baseline_profit[1]
          /\ last'.branch = "accept" => state'.baseline_profit[1] > state.baseline_profit[1]
          /\ last'.branch # "accept" => state'.baseline_profit = state.baseline_profit ]_vars

\* An accept from a baseline with a loss.
C25_Witness ==
    /\ calls = 2
    /\ last.branch = "accept"
    /\ state.history[1].profit = 0 - 50
    /\ state.baseline_profit[1] > 0

\* C26: the margin a call returns is the current_margin of the state at
\* return, and it is that state's last_safe_margin after a rollback or hold
\* and last_safe_margin + step after a cold start or accept.
C26_ReturnedMargin ==
    [][ IsDecide =>
          /\ last'.returned = state'.current_margin
          /\ last'.branch \in {"rollback", "hold"} =>
               last'.returned = state'.last_safe_margin
          /\ last'.branch \in {"cold_start", "accept"} =>
               last'.returned = state'.last_safe_margin + state'.step
          /\ last'.returned \in {state'.last_safe_margin,
                                 state'.last_safe_margin + state'.step} ]_vars

\* A hold has returned the safe margin of an earlier accept, which is neither
\* the constructor's baseline_margin nor the margin proposed before.
C26_Witness ==
    /\ calls = 3
    /\ last.branch = "hold"
    /\ state.history[2].margin = 34
    /\ state.last_safe_margin = 34
    /\ last.returned = 34
    /\ state.step > 0

\* C30: the state read back from what to_dict wrote is the state, field by
\* field: a new run constructed over the saved file has the state of the run
\* that wrote it, and so decides every next window alike.
C30_RoundTrip ==
    /\ [](from_dict(to_dict(state)) = state)
    /\ [](calls > 0 \/ Ingested =>
            /\ file # << >>
            /\ file[1].kind = "json"
            /\ from_dict(file[1].value.members) = state)
    /\ [][ (last' = last /\ file' = file) => state' = state ]_vars

\* A new run has loaded a state whose step was halved and whose baseline holds
\* zeros (a first window without impressions or bids).
C30_Witness ==
    /\ boot.source = "local"
    /\ calls = 3
    /\ state.baseline_srpm = << 0 >>
    /\ state.baseline_bid_rate = << 0 >>
    /\ state.step # opt.step
    /\ file # << >>
    /\ BlobEquals(file[1].value.members, state)

----------------------------------------------------------------------------
(* Closed loop (SpecLoop) *)

\* C27: in closed loop with a positive step, last_safe_margin after a call is
\* never below last_safe_margin after the call before, and no margin returned
\* is below the margin of the first window.
C27_ClosedLoopNeverBelow ==
    /\ [](calls > 0 =>
            /\ last.returned >= state.history[1].margin
            /\ state.last_safe_margin >= state.history[1].margin)
    /\ [][ (IsDecide /\ calls > 0) =>
             /\ last'.window.margin = last.returned
             /\ state'.last_safe_margin >= state.last_safe_margin ]_vars

\* After a rollback to the safe margin, a window measured at that margin was
\* accepted, and earlier a proposal above it: the safe margin has risen twice.
C27_Witness ==
    /\ calls = 4
    /\ last.branch = "accept"
    /\ state.history[2].margin > state.history[1].margin
    /\ state.history[4].margin = state.history[3].margin - state.step
    /\ state.last_safe_margin > state.history[1].margin
    /\ opt.step > 0

----------------------------------------------------------------------------
(* The step's descent to its floor (Spec) *)

\* Rollbacks or holds that can still change a step: the least k with
\* step <= 2^k * floor (0 when the step is at or below the floor)
HalvingsLeft(step, floor) ==
    IF step <= floor THEN 0
    ELSE IF step <= 2 * floor THEN 1
    ELSE IF step <= 4 * floor THEN 2
    ELSE 3

\* C28: for an optimizer constructed with step >= min_step > 0, the step is
\* never below min_step; every rollback or hold made with the step above
\* min_step uses up one of the finitely many halvings left, no other call
\* changes the step, and a step equal to min_step stays equal to it.
C28_StepSettlesAtFloor ==
    /\ [](opt.step >= opt.min_step =>
            /\ opt.min_step > 0
            /\ state.step >= opt.min_step
            /\ state.step <= opt.step)
    /\ [][ (opt.step >= opt.min_step /\ IsDecide) =>
             /\ (last'.branch \in {"rollback", "hold"} /\ state.step > opt.min_step) =>
                  HalvingsLeft(state'.step, opt.min_step)
                      = HalvingsLeft(state.step, opt.min_step) - 1
             /\ last'.branch \in {"cold_start", "accept"} => state'.step = state.step
             /\ state.step = opt.min_step => state'.step = opt.min_step ]_vars

\* A step of 4 with floor 1 has been halved twice, by a rollback and a hold,
\* and is at its floor.
C28_Witness ==
    /\ opt.step = 4
    /\ opt.min_step = 1
    /\ calls = 3
    /\ state.step = 1
    /\ last.branch \in {"rollback", "hold"}

\* ---------------------------------------------------------------------------
\* C29 (SpecLoad): the three baseline fields together

\* The baseline fields of s that are set
BaselinesSet(s) ==
    { k \in {"baseline_srpm", "baseline_bid_rate", "baseline_profit"} : s[k] # None }

\* C29: in every state, those loaded from a blob with only some baseline
\* fields present included, the three baseline fields are all absent or all
\* set, so that no window is compared against a missing baseline.
C29_BaselineAllOrNone ==
    Cardinality(BaselinesSet(state)) \in {0, 3}

\* An optimizer loaded from a blob lacking baseline_bid_rate has judged its
\* first window against the loaded baseline_srpm and a missing
\* baseline_bid_rate, held, and still has no baseline_bid_rate.
C29_Witness ==
    /\ boot.source = "local"
    /\ boot.error = "none"
    /\ calls = 1
    /\ last.branch = "hold"
    /\ BaselinesSet(state) = {"baseline_srpm", "baseline_profit"}

\* ---------------------------------------------------------------------------
(* Windows whose fields hold whatever the caller passed: suggest_next_margin
   does not check its arguments, compute_window_metrics converts them *)

\* Calls explored with such windows.
MaxRawCalls == 2

\* What a caller may pass where a number belongs: None, the empty string, a
\* string that is no number, a list
BadValues == {JNull, JString(""), JString("abc"), JArray(<< JNumber(1) >>)}

WindowFields == {"margin", "impressions", "revenue", "cost", "bid_rate", "responses"}

\* A window of numbers as the caller passes it
Raw(window) == [k \in WindowFields |-> JNumber(window[k])]

\* The reference window, one 2% more profitable and one with sRPM 80, each
\* with at most one field replaced by a value that is no number
RawWindows ==
    LET base == { Raw(Window(36, 1000, 100, 50, 10, 500)),
                  Raw(Window(36, 1000, 101, 50, 10, 500)),
                  Raw(Window(36, 2000, 160, 50, 10, 500)) }
    IN  base \cup { With(w, k, v) : w \in base, k \in WindowFields, v \in BadValues }

\* float(window.get(k, 0) or 0): a falsy value is replaced by 0 before float()
float_or_zero(v) == IF Truthy(v) THEN float(v) ELSE 0

float_or_zero_error(v) == IF Truthy(v) THEN float_error(v) ELSE "none"

\* The exception compute_window_metrics raises on a raw window, or "none";
\* the fields are converted in the order of the source
compute_window_metrics_error(raw) ==
    FirstError(<< float_or_zero_error(raw.impressions),
                  float_or_zero_error(raw.revenue),
                  float_or_zero_error(raw.cost),
                  float_or_zero_error(raw.bid_rate),
                  float_or_zero_error(raw.margin),
                  float_or_zero_error(raw.responses) >>)

\* The numbers compute_window_metrics works with
Converted(raw) ==
    Window(float_or_zero(raw.margin), float_or_zero(raw.impressions),
           float_or_zero(raw.revenue), float_or_zero(raw.cost),
           float_or_zero(raw.bid_rate), float_or_zero(raw.responses))

\* self._state of an optimizer whose caller may pass anything:
\* last_safe_margin and current_margin hold what the calls assigned, with its
\* type tag (None and '' are assigned as they come)
TagState(s) ==
    [s EXCEPT !.last_safe_margin = JNumber(@), !.current_margin = JNumber(@)]

\* asdict of such a state: the two margins are dumped as they are
to_dict_raw(s) ==
    [to_dict([s EXCEPT !.last_safe_margin = 0, !.current_margin = 0])
        EXCEPT !.last_safe_margin = s.last_safe_margin,
               !.current_margin   = s.current_margin]

\* MarginOptimizer.update on a raw window that converts: the history entry
\* keeps margin, impressions, revenue, cost and bid_rate as they were passed
\* (here with their type tags), not their conversions
update_raw(s, raw) ==
    LET wm == compute_window_metrics(Converted(raw))
    IN  [s EXCEPT !.history = LastN(Append(s.history, HistoryEntry(raw, wm)), HistoryCap)]

\* suggest_next_margin on a raw window, from the return of its update call:
\* the state in memory when the call returns or raises, and the exception.
\* Cold start and accept set the baseline, assign margin to last_safe_margin
\* and then add the step to it, which raises TypeError for a margin that is no
\* number (None or ''), before the branch saves; rollback and hold copy
\* last_safe_margin, whatever it holds, to current_margin.
suggest_next_margin_decision_raw(s1, raw, min_step) ==
    LET wm == compute_window_metrics(Converted(raw))
        b  == BranchOf(s1, wm)
    IN  IF b \in {"cold_start", "accept"} /\ raw.margin.t # "number"
        THEN [state |-> [s1 EXCEPT !.baseline_srpm     = Some(wm.srpm),
                                   !.baseline_bid_rate = Some(wm.bid_rate),
                                   !.baseline_profit   = Some(wm.profit),
                                   !.last_safe_margin  = raw.margin],
              error |-> "TypeError"]
        ELSE [state |-> CASE b = "cold_start" -> TagState(ColdStart(s1, wm, float(raw.margin)))
                          [] b = "rollback"   -> Rollback(s1, min_step)
                          [] b = "accept"     -> TagState(Accept(s1, wm, float(raw.margin)))
                          [] OTHER            -> Hold(s1, min_step),
              error |-> "none"]

\* last before any call with a raw window
NoRawCall ==
    [branch |-> "none", returned |-> JNumber(0), window |-> Raw(NoWindow),
     writes |-> << >>, error |-> "none", ingested |-> None]

InitRaw ==
    /\ opt \in [baseline_margin : {baseline_margin_default},
                step            : StepValues,
                min_step        : MinStepValues]
    /\ file = << >>
    /\ s3 = [enabled |-> FALSE, object |-> << >>]
    /\ state = TagState(FreshState(opt))
    /\ boot = BootOf(MarginOptimizer_load_state(file, s3, TRUE, FreshState(opt)))
    /\ calls = 0
    /\ last = NoRawCall
    /\ arm2 = NoArm
    /\ analysis = NoAnalysis

\* suggest_next_margin is called with a raw window and runs up to the return
\* of its update call: compute_window_metrics raises before anything is
\* appended or written, or the entry is appended and the state saved
IngestRaw ==
    \E raw \in RawWindows :
        /\ calls < MaxRawCalls
        /\ boot.error = "none"
        /\ ~Ingested
        /\ IF compute_window_metrics_error(raw) # "none"
           THEN /\ calls' = calls + 1
                /\ last' = [branch |-> "none", returned |-> JNumber(0), window |-> raw,
                            writes |-> << >>, error |-> compute_window_metrics_error(raw),
                            ingested |-> None]
                /\ UNCHANGED << state, file, s3 >>
           ELSE /\ state' = update_raw(state, raw)
                /\ file' = << json_dump(to_dict_raw(state')) >>
                /\ s3' \in RemoteAfterSave(s3, to_dict_raw(state'))
                /\ last' = [last EXCEPT !.ingested =
                                Some([window |-> raw, write |-> to_dict_raw(state')])]
                /\ UNCHANGED calls
        /\ UNCHANGED << opt, boot, arm2, analysis >>

\* The call decides: it raises with the state in memory changed and nothing
\* more written, or saves and returns.  A caller that catches the exception
\* may go on calling the optimizer.
DecideRaw ==
    LET raw == Val(last.ingested).window
        r   == suggest_next_margin_decision_raw(state, raw, opt.min_step)
    IN  /\ boot.error = "none"
        /\ Ingested
        /\ state' = r.state
        /\ IF r.error = "none"
           THEN /\ file' = << json_dump(to_dict_raw(state')) >>
                /\ s3' \in RemoteAfterSave(s3, to_dict_raw(state'))
           ELSE UNCHANGED << file, s3 >>
        /\ calls' = calls + 1
        /\ last' = [branch   |-> BranchOf(state, compute_window_metrics(Converted(raw))),
                    returned |-> IF r.error = "none" THEN state'.current_margin ELSE JNumber(0),
                    window   |-> raw,
                    writes   |-> IF r.error = "none"
                                 THEN << Val(last.ingested).write, to_dict_raw(state') >>
                                 ELSE << Val(last.ingested).write >>,
                    error    |-> r.error,
                    ingested |-> None]
        /\ UNCHANGED << opt, boot, arm2, analysis >>

\* A new run: the optimizer is constructed again over the file as it is; a
\* file with a margin of null or '' makes from_dict, and so the constructor,
\* raise
RestartRaw ==
    LET r == MarginOptimizer_load_state(file, s3, TRUE, FreshState(opt))
    IN  /\ last # NoRawCall
        /\ ~Ingested
        /\ state' = TagState(r.state)
        /\ boot' = BootOf(r)
        /\ last' = NoRawCall
        /\ UNCHANGED << opt, file, calls, s3, arm2, analysis >>

NextRaw ==
    \/ IngestRaw
    \/ DecideRaw
    \/ RestartRaw

SpecRaw == InitRaw /\ [][NextRaw]_vars

\* The fields of a raw window that hold no number
NonNumeric(raw) == { k \in WindowFields : raw[k].t # "number" }

\* C21: a call whose window holds a non-numeric value in a numeric field
\* fails with a conversion error, the value is not treated as zero, and the
\* failed call leaves the state as it was: no history entry is appended and
\* nothing is persisted.
C21_NonNumericFailsCleanly ==
    [][ (calls' = calls + 1 /\ NonNumeric(last'.window) # {}) =>
           /\ last'.error \in {"ValueError", "TypeError"}
           /\ state' = state
           /\ last'.writes = << >>
           /\ file' = file ]_vars

\* A first call with margin None has raised TypeError after its history
\* entry was appended and saved and the baseline was set in memory.
C21_Witness ==
    /\ calls = 1
    /\ last.window.margin = JNull
    /\ last.error = "TypeError"
    /\ Len(state.history) = 1
    /\ file # << >>
    /\ state.baseline_srpm # None
    /\ state.last_safe_margin = JNull

\* ---------------------------------------------------------------------------
(* run_optimizer.main: one invocation of the hourly runner, with the margin
   sink (api_client.update_margin) and the run log (s3_storage.save_run_log) *)

\* Invocations explored.
MaxRuns == 2

\* Windows the data source hands the runner, at margin 36 and, as
\* fetch_hourly_metrics has it, 35
RunnerWindows ==
    { Window(Quarters(36), 1000, 100, 50, 10, 500),
      Window(Quarters(36), 1000, 101, 50, 10, 500),
      Window(Quarters(36), 2000, 160, 50, 10, 500),
      Window(Quarters(36), 1000, 101, 50,  8, 500),
      Window(Quarters(35), 1000, 100, 50, 10, 500) }

\* api_client.update_margin: with UPDATE_MARGIN_API_URL unset and with it set
\* the margin is printed and True returned; the call to the platform is a
\* comment
update_margin(margin) == TRUE

\* The arguments of save_run_log; the timestamp inside the log is the time
\* of the call, which the model carries in the key only
RunLogRecord(current_margin, next_margin, metrics, success) ==
    [current_margin |-> current_margin,
     next_margin    |-> next_margin,
     metrics        |-> metrics,
     success        |-> success]

\* The seconds of the clock (datetime.utcnow, which the model takes not to go
\* back) a save_run_log call may fall in: that of the latest run log, or the
\* next; seconds are counted from the first run log
RunLogSeconds(store) ==
    IF store.runs = << >> THEN {1}
    ELSE {store.runs[Len(store.runs)].key, store.runs[Len(store.runs)].key + 1}

\* s3_storage.save_run_log: when S3_BUCKET is set and the put succeeds the
\* log is the object under runs/<utcnow to the second>.json, in place of a
\* log written under that key in the same second; a failure is swallowed
save_run_log(store, record, answers, second) ==
    IF ~(store.enabled /\ answers) THEN store
    ELSE IF \E i \in DOMAIN store.runs : store.runs[i].key = second
    THEN [store EXCEPT !.runs = [i \in DOMAIN @ |->
                                    IF @[i].key = second
                                    THEN [key |-> second, log |-> record] ELSE @[i]]]
    ELSE [store EXCEPT !.runs = Append(@, [key |-> second, log |-> record])]

\* Mutant: update_margin is called a second time.
update_margin_calls_twice(next_margin, persisted, success) ==
    << [margin |-> next_margin, persisted |-> persisted],
       [margin |-> next_margin, persisted |-> persisted] >>

\* The calls of update_margin main makes: one, with the margin
\* suggest_next_margin returned; persisted is the state file at that time
update_margin_calls(next_margin, persisted, success) ==
    << [margin |-> next_margin, persisted |-> persisted] >>

\* Mutant: main returns without calling save_run_log.
save_run_log_calls_skipped(current_margin, next_margin, metrics, success) == << >>

\* The calls of save_run_log main makes: none after `return 1`
save_run_log_calls(current_margin, next_margin, metrics, success) ==
    IF ~success THEN << >>
    ELSE << RunLogRecord(current_margin, next_margin, metrics, success) >>

\* main's return value
ExitStatus(success) == IF ~success THEN 1 ELSE 0

\* last before any invocation; at is the place main has reached, data the
\* metrics it works on
NoRun ==
    [branch |-> "none", returned |-> 0, window |-> NoWindow, writes |-> << >>,
     sink |-> << >>, success |-> TRUE, handed |-> << >>, exit |-> 0,
     at |-> "idle", data |-> NoWindow]

InitRunner ==
    /\ opt = main_arguments
    /\ file = << >>
    /\ s3 \in [enabled : BOOLEAN, object : {<< >>}, runs : {<< >>}]
    /\ state = FreshState(opt)
    /\ boot = Unconstructed
    /\ calls = 0
    /\ last = NoRun
    /\ arm2 = NoArm
    /\ analysis = NoAnalysis

\* main up to the optimizer: the metrics are fetched or read, and
\* MarginOptimizer is constructed and loads its state
RunnerConstruct ==
    \E data \in RunnerWindows, answers \in BOOLEAN :
        LET loaded == MarginOptimizer_load_state(file, s3, answers, FreshState(opt))
        IN  /\ calls < MaxRuns
            /\ last.at = "idle"
            /\ loaded.error = "none"
            /\ boot' = BootOf(loaded)
            /\ state' = loaded.state
            /\ last' = [last EXCEPT !.at = "constructed", !.data = data]
            /\ UNCHANGED << opt, file, s3, calls, arm2, analysis >>

\* suggest_next_margin up to the return of its update call: the window is
\* appended and the state saved
RunnerIngest ==
    /\ last.at = "constructed"
    /\ state' = update(state, last.data)
    /\ file' = << json_dump(to_dict(state')) >>
    /\ s3' \in RemoteAfterSave(s3, to_dict(state'))
    /\ last' = [last EXCEPT !.at = "ingested", !.writes = << to_dict(state') >>]
    /\ UNCHANGED << opt, calls, boot, arm2, analysis >>

\* suggest_next_margin decides, saves and returns next_margin
RunnerDecide ==
    /\ last.at = "ingested"
    /\ state' = suggest_next_margin_decision(state, last.data, opt.min_step)
    /\ file' = << json_dump(to_dict(state')) >>
    /\ s3' \in RemoteAfterSave(s3, to_dict(state'))
    /\ last' = [last EXCEPT !.at = "decided",
                            !.branch = BranchOf(state, compute_window_metrics(last.data)),
                            !.returned = state'.current_margin,
                            !.window = last.data,
                            !.writes = Append(@, to_dict(state'))]
    /\ UNCHANGED << opt, calls, boot, arm2, analysis >>

\* The rest of main: update_margin is called with next_margin and answers
\* success; unless it failed, save_run_log is handed the record of the
\* invocation, in the second of the latest run log or a later one; main
\* returns
RunnerMain ==
    \E log_answers \in BOOLEAN, second \in RunLogSeconds(s3) :
        LET success == update_margin(last.returned)
            handed == save_run_log_calls(last.data.margin, last.returned, last.data, success)
        IN  /\ last.at = "decided"
            /\ s3' = IF handed = << >> THEN s3
                     ELSE save_run_log(s3, handed[1], log_answers, second)
            /\ calls' = calls + 1
            /\ last' = [last EXCEPT !.at = "idle",
                                    !.sink = update_margin_calls(last.returned, file, success),
                                    !.success = success,
                                    !.handed = handed,
                                    !.exit = ExitStatus(success)]
            /\ UNCHANGED << opt, state, file, boot, arm2, analysis >>

NextRunner ==
    \/ RunnerConstruct
    \/ RunnerIngest
    \/ RunnerDecide
    \/ RunnerMain
    \/ CleanStaleState

SpecRunner == InitRunner /\ [][NextRunner]_vars

\* A step that is one invocation of the runner
IsRun == calls' = calls + 1

C24_SinkOnceAfterPersist ==
    [][ IsRun =>
          /\ last.at = "decided"
          /\ Len(last'.sink) = 1
          /\ last'.sink[1].margin = last.returned
          /\ last'.sink[1].margin = state.current_margin
          /\ last'.sink[1].persisted = << json_dump(to_dict(state)) >>
          /\ last'.sink[1].persisted = << json_dump(last.writes[2]) >>
          /\ IsEntryOf(state.history[Len(state.history)], last.data)
          /\ ~last'.success =>
               /\ last'.exit = 1
               /\ state' = state
               /\ file' = << json_dump(to_dict(state)) >>
          /\ last'.success => last'.exit = 0
          /\ state' = state
          /\ file' = file ]_vars

\* The second invocation called the sink once, with the margin decide
\* returned and with the two-window state already in the file; the sink
\* answered success, main returned 0, and the file still holds that state.
C24_Witness ==
    /\ calls = 2
    /\ last.at = "idle"
    /\ last.success
    /\ Len(last.sink) = 1
    /\ last.sink[1].margin = state.current_margin
    /\ last.sink[1].persisted = file
    /\ last.exit = 0
    /\ file = << json_dump(to_dict(state)) >>
    /\ Len(state.history) = 2

\* ---------------------------------------------------------------------------
(* The remote store failing: s3_storage raising inside save_state or
   load_state, or the import of the storage module failing *)

\* Calls explored with a failing remote store.
MaxRemoteCalls == 2

\* How one use of the remote store goes: it answers, the client raises (the
\* get, the put or `import boto3`), or `from s3_storage import ...` raises
\* ImportError
RemoteModes == {"ok", "raises", "unavailable"}

RemoteWindows ==
    { Window(36, 1000, 100, 50, 10, 500),
      Window(36, 1000, 101, 50, 10, 500),
      Window(36, 2000, 160, 50, 10, 500) }

\* The same store with S3_BUCKET unset
Disabled(store) == [store EXCEPT !.enabled = FALSE]

\* MarginOptimizer._load_state under a mode of the remote store: the import
\* is reached only when the local file is missing, and its ImportError is
\* passed over
MarginOptimizer_load_state_mode(f, store, mode, fresh) ==
    IF f = << >> /\ mode = "unavailable"
    THEN [state |-> fresh, error |-> "none", source |-> "fresh", remote_read |-> FALSE]
    ELSE MarginOptimizer_load_state(f, store, mode = "ok", fresh)

\* Mutant: an exception of the remote store leaves _save_state.
MarginOptimizer_save_state_propagates(s, store, mode) ==
    [file  |-> << json_dump(to_dict(s)) >>,
     store |-> IF mode = "ok" THEN s3_save_state(store, to_dict(s), TRUE) ELSE store,
     error |-> IF store.enabled /\ mode # "ok" THEN "Exception" ELSE "none"]

\* MarginOptimizer._save_state: the local file is written first; the
\* ImportError is passed over and save_state swallows every other exception
MarginOptimizer_save_state(s, store, mode) ==
    [file  |-> << json_dump(to_dict(s)) >>,
     store |-> IF mode = "unavailable" THEN store
               ELSE s3_save_state(store, to_dict(s), mode = "ok"),
     error |-> "none"]

\* MarginOptimizer.update with its _save_state under a mode of the remote
\* store: the state in memory, the local file and the remote store when it
\* returns or raises
update_saving(s, store, window, mode) ==
    LET s1 == update(s, window)
        w1 == MarginOptimizer_save_state(s1, store, mode)
    IN  [state |-> s1, file |-> w1.file, store |-> w1.store, error |-> w1.error]

\* suggest_next_margin after its update call, with its own _save_state under
\* a mode of the remote store; on an exception nothing is returned
suggest_next_margin_decision_saving(s1, store, window, min_step, mode) ==
    LET s2 == suggest_next_margin_decision(s1, window, min_step)
        w2 == MarginOptimizer_save_state(s2, store, mode)
    IN  [state |-> s2, file |-> w2.file, store |-> w2.store, error |-> w2.error,
         returned |-> IF w2.error = "none" THEN s2.current_margin ELSE 0]

NoRemoteCall ==
    [branch |-> "none", returned |-> 0, window |-> NoWindow, writes |-> << >>,
     error |-> "none", modes |-> << >>, ingested |-> None]

\* What a machine finds under the remote state key: nothing, text that is no
\* JSON, the state another run saved, or a state with a null step
InitRemote ==
    /\ opt \in [baseline_margin : {baseline_margin_default},
                step            : {1, 4},
                min_step        : {1}]
    /\ file = << >>
    /\ s3 \in [enabled : {TRUE},
               object  : {<< >>, << Garbage >>, << json_dump(OtherSavedDict) >>,
                          << json_dump(With(OtherSavedDict, "step", JNull)) >>}]
    /\ state = FreshState(opt)
    /\ boot = [error |-> "none", source |-> "unconstructed", remote_read |-> FALSE,
               mode |-> "ok"]
    /\ calls = 0
    /\ last = NoRemoteCall
    /\ arm2 = NoArm
    /\ analysis = NoAnalysis

\* MarginOptimizer.__init__ with the remote store in some mode
ConstructRemote ==
    \E mode \in RemoteModes :
        LET r == MarginOptimizer_load_state_mode(file, s3, mode, FreshState(opt))
        IN  /\ boot.source = "unconstructed"
            /\ state' = r.state
            /\ boot' = [error |-> r.error, source |-> r.source,
                        remote_read |-> r.remote_read, mode |-> mode]
            /\ UNCHANGED << opt, file, calls, last, s3, arm2, analysis >>

\* A call of suggest_next_margin up to the return of its update call, whose
\* save meets the remote store in some mode; an exception of that save ends
\* the call
IngestRemote ==
    \E window \in RemoteWindows, m1 \in RemoteModes :
        LET r == update_saving(state, s3, window, m1)
        IN  /\ calls < MaxRemoteCalls
            /\ boot.source # "unconstructed"
            /\ boot.error = "none"
            /\ ~Ingested
            /\ state' = r.state
            /\ file' = r.file
            /\ s3' = r.store
            /\ IF r.error = "none"
               THEN /\ last' = [last EXCEPT !.ingested =
                                   Some([window |-> window, write |-> to_dict(r.state),
                                         mode |-> m1])]
                    /\ calls' = calls
               ELSE /\ last' = [branch   |-> "none",
                                returned |-> 0,
                                window   |-> window,
                                writes   |-> << to_dict(r.state) >>,
                                error    |-> r.error,
                                modes    |-> << m1 >>,
                                ingested |-> None]
                    /\ calls' = calls + 1
            /\ UNCHANGED << opt, boot, arm2, analysis >>

\* The rest of the call: the decision and its save, which meets the remote
\* store in a mode of its own
DecideRemote ==
    \E m2 \in RemoteModes :
        LET p == Val(last.ingested)
            r == suggest_next_margin_decision_saving(state, s3, p.window, opt.min_step, m2)
        IN  /\ boot.error = "none"
            /\ Ingested
            /\ state' = r.state
            /\ file' = r.file
            /\ s3' = r.store
            /\ calls' = calls + 1
            /\ last' = [branch   |-> BranchOf(state, compute_window_metrics(p.window)),
                        returned |-> r.returned,
                        window   |-> p.window,
                        writes   |-> << p.write, to_dict(r.state) >>,
                        error    |-> r.error,
                        modes    |-> << p.mode, m2 >>,
                        ingested |-> None]
            /\ UNCHANGED << opt, boot, arm2, analysis >>

\* Between two calls the optimizer moves to a machine without the local file
\* ("first run on new machine") and is constructed there next
NewMachine ==
    /\ boot.source # "unconstructed"
    /\ ~Ingested
    /\ file # << >>
    /\ file' = << >>
    /\ state' = FreshState(opt)
    /\ boot' = [error |-> "none", source |-> "unconstructed", remote_read |-> FALSE,
                mode |-> "ok"]
    /\ last' = NoRemoteCall
    /\ UNCHANGED << opt, calls, s3, arm2, analysis >>

NextRemote ==
    \/ ConstructRemote
    \/ IngestRemote
    \/ DecideRemote
    \/ NewMachine
    \/ CleanStaleState

SpecRemote == InitRemote /\ [][NextRemote]_vars

\* The remote load of a construction failed: the module could not be
\* imported, or load_state caught an exception of the client, of a missing
\* object or of json.loads
RemoteLoadFailed(store, mode) ==
    \/ mode # "ok"
    \/ store.object = << >>
    \/ store.object[1].kind # "json"

\* C31: a construction whose remote load failed, and each of the two saves of
\* a suggest_next_margin call whose remote save failed, end as they end with
\* the remote store disabled: the same exception or none, the same state in
\* memory, the same local file and the same margin returned.
C31_RemoteFailureHarmless ==
    [][ /\ (boot.source = "unconstructed" /\ boot'.source # "unconstructed"
              /\ file = << >> /\ RemoteLoadFailed(s3, boot'.mode)) =>
            LET d == MarginOptimizer_load_state_mode(file, Disabled(s3), "ok", FreshState(opt))
            IN  /\ state' = d.state
                /\ boot'.error = d.error
                /\ file' = file
        /\ (IsIngest /\ Val(last'.ingested).mode # "ok") =>
            LET d == update_saving(state, Disabled(s3), Val(last'.ingested).window, "ok")
            IN  /\ state' = d.state
                /\ file' = d.file
                /\ d.error = "none"
        /\ ~(~Ingested /\ calls' = calls + 1 /\ last'.error # "none")
        /\ (Ingested /\ calls' = calls + 1 /\ \E i \in 1..2 : last'.modes[i] # "ok") =>
            LET d == suggest_next_margin_decision_saving(state, Disabled(s3), last'.window,
                                                         opt.min_step, "ok")
            IN  /\ state' = d.state
                /\ file' = d.file
                /\ last'.returned = d.returned
                /\ last'.error = d.error ]_vars

\* On a new machine, with the state of two calls in the remote store, the
\* remote load failed and the optimizer started fresh; its next call, with
\* both saves failing, was a cold start persisted locally.
C31_Witness ==
    /\ calls = 2
    /\ boot.source = "fresh"
    /\ boot.mode # "ok"
    /\ s3.object # << >>
    /\ last.modes = << "raises", "unavailable" >>
    /\ last.branch = "cold_start"
    /\ last.error = "none"
    /\ last.returned = state.current_margin
    /\ file = << json_dump(to_dict(state)) >>

============================================================================
